---- MODULE Spec2Model ----
(***************************************************************************)
(* State-machine model of the text-injection engine of open-whispr        *)
(* (ClipboardManager: pasteText, pasteMacOS, pasteWindows, pasteLinux,     *)
(* commandExists, checkAccessibilityPermissions, checkPasteTools) and of    *)
(* its application shell (HotkeyManager, the hotkey callback of            *)
(* WindowManager, DevServerManager.waitForDevServer).                      *)
(*                                                                         *)
(* The program is single-threaded JavaScript: every action below is one    *)
(* run-to-completion step of the event loop (a call's synchronous part, a  *)
(* timer callback, or a child-process event handler) together with the     *)
(* promise continuations (microtasks) it triggers.                         *)
(***************************************************************************)
EXTENDS Integers, Sequences, FiniteSets, TLC

\* ------------------------------------------------------------------------
\* Bounds of the model
\* ------------------------------------------------------------------------
MaxCalls == 2
MaxTicks == 2
MaxEnvChanges == 1
CallPeriod == 10000
\* `open` processes that fail to spawn in one run
MaxSpawnFailures == 1
\* direct setupShortcuts / updateHotkey calls, and application restarts
MaxHotkeyOps == 2
MaxRestarts == 1
\* invocations of the hotkey callback, and clock steps between them
MaxPresses == 3
MaxSteps == 3
\* the largest maxAttempts handed to waitForDevServer
MaxAttempts == 3

\* ------------------------------------------------------------------------
\* Program constants
\* ------------------------------------------------------------------------
CACHE_TTL_MS == 30000

PASTE_DELAYS == [darwin |-> 50, win32_nircmd |-> 30, win32_pwsh |-> 40, linux |-> 50]

RESTORE_DELAYS == [darwin |-> 100, win32_nircmd |-> 80, win32_pwsh |-> 80, linux |-> 200]

PASTE_DELAY_MS == PASTE_DELAYS.darwin

MACOS_TIMEOUT_MS == 3000
NIRCMD_TIMEOUT_MS == 2000
PWSH_TIMEOUT_MS == 5000
LINUX_TIMEOUT_MS == 2000

\* ------------------------------------------------------------------------
\* Strings that the code inspects character by character are modelled as
\* sequences of one-character strings.
\* ------------------------------------------------------------------------
UpperChars == <<"A","B","C","D","E","F","G","H","I","J","K","L","M",
                "N","O","P","Q","R","S","T","U","V","W","X","Y","Z">>
LowerChars == <<"a","b","c","d","e","f","g","h","i","j","k","l","m",
                "n","o","p","q","r","s","t","u","v","w","x","y","z">>

ToLowerChar(c) ==
  IF \E i \in 1..26 : UpperChars[i] = c
  THEN LowerChars[CHOOSE i \in 1..26 : UpperChars[i] = c]
  ELSE c

\* String.prototype.toLowerCase
ToLowerCase(s) == [i \in 1..Len(s) |-> ToLowerChar(s[i])]

\* String.prototype.includes
Includes(s, t) ==
  \E i \in 0..(Len(s) - Len(t)) : SubSeq(s, i + 1, i + Len(t)) = t

\* Array.prototype.filter(Boolean).join(":") on a list of strings
RECURSIVE JoinNonEmpty(_)
JoinNonEmpty(ss) ==
  IF ss = <<>> THEN <<>>
  ELSE LET rest == JoinNonEmpty(Tail(ss)) IN
       IF Head(ss) = <<>> THEN rest
       ELSE IF rest = <<>> THEN Head(ss)
       ELSE Head(ss) \o <<":">> \o rest

\* ------------------------------------------------------------------------
\* Session environment (process.env) samples
\* ------------------------------------------------------------------------
sWayland == <<"w","a","y","l","a","n","d">>
sWAYLAND == <<"W","a","y","l","a","n","d">>
sX11 == <<"x","1","1">>
sTty == <<"t","t","y">>
sGnome == <<"g","n","o","m","e">>
sGNOME == <<"G","N","O","M","E">>
sUbuntuGNOME == <<"u","b","u","n","t","u",":","G","N","O","M","E">>
sKDE == <<"K","D","E">>
sPlasma == <<"p","l","a","s","m","a">>
sSet == <<":","0">>
sUnset == <<>>

MkEnv(st, wd, d, cur, sess, desk) ==
  [XDG_SESSION_TYPE |-> st, WAYLAND_DISPLAY |-> wd, DISPLAY |-> d,
   XDG_CURRENT_DESKTOP |-> cur, XDG_SESSION_DESKTOP |-> sess, DESKTOP_SESSION |-> desk]

NoEnv == MkEnv(sUnset, sUnset, sUnset, sUnset, sUnset, sUnset)

LinuxEnvs ==
  { MkEnv(sX11, sUnset, sSet, sKDE, sUnset, sPlasma),
    MkEnv(sX11, sUnset, sSet, sUbuntuGNOME, sUnset, sUnset),
    MkEnv(sTty, sSet, sUnset, sUnset, sUnset, sGnome),
    MkEnv(sWAYLAND, sUnset, sSet, sGNOME, sGnome, sUnset),
    MkEnv(sWayland, sSet, sUnset, sKDE, sUnset, sUnset),
    MkEnv(sWayland, sSet, sSet, sKDE, sUnset, sPlasma),
    NoEnv }

InstalledSets ==
  { {}, {"xdotool", "kdotool"}, {"wtype", "ydotool"}, {"wtype", "xdotool", "ydotool"} }

getLinuxDesktopEnv(e) ==
  ToLowerCase(JoinNonEmpty(<<e.XDG_CURRENT_DESKTOP, e.XDG_SESSION_DESKTOP, e.DESKTOP_SESSION>>))

isGnomeDesktop(desktopEnv) == Includes(desktopEnv, sGnome)

getLinuxSessionInfo(e) ==
  LET isWayland == ToLowerCase(e.XDG_SESSION_TYPE) = sWayland \/ e.WAYLAND_DISPLAY # <<>>
      xwaylandAvailable == isWayland /\ e.DISPLAY # <<>>
      desktopEnv == getLinuxDesktopEnv(e)
      isGnome == isWayland /\ isGnomeDesktop(desktopEnv)
  IN [isWayland |-> isWayland, xwaylandAvailable |-> xwaylandAvailable,
      desktopEnv |-> desktopEnv, isGnome |-> isGnome]

\* getLinuxSessionInfo tabulated over the sampled environments (evaluated once)
SessionInfoTable == [e \in LinuxEnvs |-> getLinuxSessionInfo(e)]

\* ------------------------------------------------------------------------
\* Capability cache (commandExists)
\* ------------------------------------------------------------------------
Tools == {"xdotool", "wtype", "ydotool", "kdotool"}

NoEntry == [present |-> FALSE, exists |-> FALSE, expiresAt |-> 0]

\* `cached && now < cached.expiresAt`
\* (CacheHitLate is the faulty variant that still hits at t = expiresAt)
CacheHitLate(entry, t) == entry.present /\ t <= entry.expiresAt
CacheHit(entry, t) == entry.present /\ t < entry.expiresAt

\* the entry stored after a probe
\* (FreshEntryPositiveOnly is the faulty variant that stores nothing after a
\* failed probe)
FreshEntryPositiveOnly(exists, t) ==
  IF exists THEN [present |-> TRUE, exists |-> TRUE, expiresAt |-> t + CACHE_TTL_MS]
  ELSE NoEntry
FreshEntry(exists, t) == [present |-> TRUE, exists |-> exists, expiresAt |-> t + CACHE_TTL_MS]

\* commandExists(cmd) at time t; inst is the set of tools `command -v` finds,
\* throws says that spawnSync itself threw.  Returns the value, the new cache
\* and whether a probe process was spawned.
commandExists(cache, cmd, t, inst, throws) ==
  IF CacheHit(cache[cmd], t)
  THEN [exists |-> cache[cmd].exists, cache |-> cache, probed |-> FALSE]
  ELSE LET exists == IF throws THEN FALSE ELSE cmd \in inst IN
       [exists |-> exists,
        cache |-> [cache EXCEPT ![cmd] = FreshEntry(exists, t)],
        probed |-> TRUE]

\* ------------------------------------------------------------------------
\* Focus inspection (pasteLinux: getXdotoolActiveWindow, getXdotoolWindowClass,
\* isTerminal)
\* ------------------------------------------------------------------------
terminalClasses ==
  << <<"k","o","n","s","o","l","e">>,
     <<"g","n","o","m","e","-","t","e","r","m","i","n","a","l">>,
     <<"t","e","r","m","i","n","a","l">>,
     <<"k","i","t","t","y">>,
     <<"a","l","a","c","r","i","t","t","y">>,
     <<"t","e","r","m","i","n","a","t","o","r">>,
     <<"x","t","e","r","m">>,
     <<"u","r","x","v","t">>,
     <<"r","x","v","t">>,
     <<"t","i","l","i","x">>,
     <<"t","e","r","m","i","n","o","l","o","g","y">>,
     <<"w","e","z","t","e","r","m">>,
     <<"f","o","o","t">>,
     <<"s","t">>,
     <<"y","a","k","u","a","k","e">> >>

WhiteSpace == {" ", "\n", "\t"}

\* String.prototype.trim
RECURSIVE TrimLeft(_)
TrimLeft(s) == IF s # <<>> /\ Head(s) \in WhiteSpace THEN TrimLeft(Tail(s)) ELSE s
RECURSIVE TrimRight(_)
TrimRight(s) ==
  IF s # <<>> /\ s[Len(s)] \in WhiteSpace THEN TrimRight(SubSeq(s, 1, Len(s) - 1)) ELSE s
Trim(s) == TrimRight(TrimLeft(s))

\* terminalClasses.some((term) => className.includes(term))
isTerminalClass(className) ==
  \E i \in 1..Len(terminalClasses) : Includes(className, terminalClasses[i])

\* What the window system would answer to the introspection helpers:
\* xwin   stdout of `xdotool getactivewindow` ("" when it fails or prints nothing)
\* xcls   stdout of `xdotool ... getwindowclassname` (<<>> when it fails)
\* kwin   whether `kdotool getactivewindow` exits with status 0
\* kcls   stdout of `kdotool getwindowclassname` ; kclsOk its status = 0
MkFocus(xwin, xcls, kwin, kclsOk, kcls) ==
  [xwin |-> xwin, xcls |-> xcls, kwin |-> kwin, kclsOk |-> kclsOk, kcls |-> kcls]

cKonsole == <<"k","o","n","s","o","l","e">> \o <<"\n">>
cFirefox == <<"f","i","r","e","f","o","x">> \o <<"\n">>
cXTerm == <<"X","T","e","r","m">> \o <<"\n">>
cPostman == <<"P","o","s","t","m","a","n">> \o <<"\n">>

FocusSamples ==
  { MkFocus("", <<>>, FALSE, FALSE, <<>>),
    MkFocus("41943046", cFirefox, TRUE, TRUE, cKonsole),
    MkFocus("41943046", cKonsole, TRUE, FALSE, <<>>),
    MkFocus("", cXTerm, TRUE, TRUE, cPostman) }

\* className.toLowerCase().trim() and the terminal test, tabulated over the
\* sampled answers (evaluated once)
ClassTable ==
  [raw \in {f.xcls : f \in FocusSamples} \cup {f.kcls : f \in FocusSamples} |->
     LET norm == Trim(ToLowerCase(raw)) IN [norm |-> norm, terminal |-> isTerminalClass(norm)]]

\* getXdotoolActiveWindow: "" stands for null
getXdotoolActiveWindow(info, xdotoolExists, inst, focus) ==
  IF ~xdotoolExists \/ (info.isWayland /\ ~info.xwaylandAvailable) THEN ""
  ELSE IF "xdotool" \notin inst THEN ""
  ELSE focus.xwin

\* getXdotoolWindowClass: <<>> stands for null
getXdotoolWindowClass(info, xdotoolExists, inst, focus) ==
  IF ~xdotoolExists \/ (info.isWayland /\ ~info.xwaylandAvailable) THEN <<>>
  ELSE IF "xdotool" \notin inst THEN <<>>
  ELSE ClassTable[focus.xcls].norm

\* the className isTerminal() obtains from kdotool; <<>> when xdotool already
\* gave a class name or kdotool gives none
getKdotoolWindowClass(xdotoolWindowClass, kdotoolExists, inst, focus) ==
  IF xdotoolWindowClass # <<>> THEN <<>>
  ELSE IF kdotoolExists /\ "kdotool" \in inst /\ focus.kwin /\ focus.kclsOk
       THEN ClassTable[focus.kcls].norm
       ELSE <<>>

\* isTerminal(): kdotoolExists is the answer of commandExists("kdotool"),
\* consulted only when xdotool gave no class name
isTerminal(xdotoolWindowClass, kdotoolExists, inst, focus) ==
  IF xdotoolWindowClass # <<>> THEN ClassTable[focus.xcls].terminal
  ELSE IF kdotoolExists /\ "kdotool" \in inst /\ focus.kwin /\ focus.kclsOk
       THEN ClassTable[focus.kcls].terminal
       ELSE FALSE

\* ------------------------------------------------------------------------
\* Linux strategy selection (pasteLinux, checkPasteTools)
\* ------------------------------------------------------------------------
\* `pasteKeys = inTerminal ? "ctrl+shift+v" : "ctrl+v"`
\* (pasteKeysOfPlain is the faulty variant that ignores the terminal test)
pasteKeysOfPlain(inTerminal) == "ctrl+v"
pasteKeysOf(inTerminal) == IF inTerminal THEN "ctrl+shift+v" ELSE "ctrl+v"

\* `canUseWtype = isWayland && !isGnome`
\* (canUseWtypeAnyWayland is the faulty variant that forgets the GNOME test)
canUseWtypeAnyWayland(info) == info.isWayland
canUseWtype(info) == info.isWayland /\ ~info.isGnome

canUseYdotool(info) == info.isWayland

\* `canUseXdotool = isWayland ? xwaylandAvailable && xdotoolExists : xdotoolExists`
\* (canUseXdotoolAnySession is the faulty variant that forgets the session test)
canUseXdotoolAnySession(info, xdotoolExists) == xdotoolExists
canUseXdotool(info, xdotoolExists) ==
  IF info.isWayland THEN info.xwaylandAvailable /\ xdotoolExists ELSE xdotoolExists

\* `xdotoolArgs = targetWindowId ? ["windowactivate", "--sync", id, "key", keys] : ["key", keys]`
\* (xdotoolArgsAlwaysTarget is the faulty variant that retargets even without
\* a window ID)
xdotoolArgsAlwaysTarget(targetWindowId, pasteKeys) ==
  <<"windowactivate", "--sync", targetWindowId, "key", pasteKeys>>
xdotoolArgs(targetWindowId, pasteKeys) ==
  IF targetWindowId # ""
  THEN <<"windowactivate", "--sync", targetWindowId, "key", pasteKeys>>
  ELSE <<"key", pasteKeys>>

ydotoolArgs(inTerminal) ==
  IF inTerminal
  THEN <<"key", "29:1", "42:1", "47:1", "47:0", "42:0", "29:0">>
  ELSE <<"key", "29:1", "47:1", "47:0", "29:0">>

wtypeArgs(inTerminal) ==
  IF inTerminal
  THEN <<"-M", "ctrl", "-M", "shift", "-k", "v", "-m", "shift", "-m", "ctrl">>
  ELSE <<"-M", "ctrl", "-k", "v", "-m", "ctrl">>

typeArgs(targetWindowId, textToType) ==
  IF targetWindowId # ""
  THEN <<"windowactivate", "--sync", targetWindowId, "type", "--clearmodifiers", "--", textToType>>
  ELSE <<"type", "--clearmodifiers", "--", textToType>>

MkTool(cmd, args) == [cmd |-> cmd, args |-> args]

\* the `candidates` array of pasteLinux
\* (candidatesXFirst is the faulty variant that puts xdotool before wtype)
candidatesXFirst(info, xdotoolExists, inTerminal, targetWindowId) ==
  (IF canUseXdotool(info, xdotoolExists)
   THEN <<MkTool("xdotool", xdotoolArgs(targetWindowId, pasteKeysOf(inTerminal)))>>
   ELSE <<>>)
  \o (IF canUseWtype(info) THEN <<MkTool("wtype", wtypeArgs(inTerminal))>> ELSE <<>>)
  \o (IF canUseYdotool(info) THEN <<MkTool("ydotool", ydotoolArgs(inTerminal))>> ELSE <<>>)
candidates(info, xdotoolExists, inTerminal, targetWindowId) ==
  (IF canUseWtype(info) THEN <<MkTool("wtype", wtypeArgs(inTerminal))>> ELSE <<>>)
  \o (IF canUseXdotool(info, xdotoolExists)
      THEN <<MkTool("xdotool", xdotoolArgs(targetWindowId, pasteKeysOf(inTerminal)))>>
      ELSE <<>>)
  \o (IF canUseYdotool(info) THEN <<MkTool("ydotool", ydotoolArgs(inTerminal))>> ELSE <<>>)

\* Array.prototype.filter with a membership test
RECURSIVE FilterTools(_, _)
FilterTools(cands, okCmds) ==
  IF cands = <<>> THEN <<>>
  ELSE IF Head(cands).cmd \in okCmds
       THEN <<Head(cands)>> \o FilterTools(Tail(cands), okCmds)
       ELSE FilterTools(Tail(cands), okCmds)

\* The synchronous head of pasteLinux, up to the `available` list.  The cache
\* is threaded through the commandExists calls in the order the code makes
\* them: xdotool, wtype, ydotool, (kdotool), then one per candidate.
LinuxPlan(e, cache0, t, inst, focus) ==
  LET info == SessionInfoTable[e]
      r1 == commandExists(cache0, "xdotool", t, inst, FALSE)
      r2 == commandExists(r1.cache, "wtype", t, inst, FALSE)
      r3 == commandExists(r2.cache, "ydotool", t, inst, FALSE)
      targetWindowId == getXdotoolActiveWindow(info, r1.exists, inst, focus)
      xdotoolWindowClass == getXdotoolWindowClass(info, r1.exists, inst, focus)
      askKdotool == xdotoolWindowClass = <<>>
      r4 == IF askKdotool THEN commandExists(r3.cache, "kdotool", t, inst, FALSE)
            ELSE [exists |-> FALSE, cache |-> r3.cache, probed |-> FALSE]
      inTerminal == isTerminal(xdotoolWindowClass, r4.exists, inst, focus)
      cands == candidates(info, r1.exists, inTerminal, targetWindowId)
      \* the filter re-asks the cache at the same instant: every entry it
      \* needs was stored (or found fresh) above, so it is answered from it
      okCmds == {c \in Tools : r4.cache[c].present /\ r4.cache[c].exists}
      probedNow == {c \in Tools :
                      \/ (c = "xdotool" /\ r1.probed) \/ (c = "wtype" /\ r2.probed)
                      \/ (c = "ydotool" /\ r3.probed) \/ (c = "kdotool" /\ r4.probed)}
  IN [isWayland |-> info.isWayland, xwaylandAvailable |-> info.xwaylandAvailable,
      isGnome |-> info.isGnome,
      xdotoolExists |-> r1.exists, wtypeExists |-> r2.exists, ydotoolExists |-> r3.exists,
      targetWindowId |-> targetWindowId, xdotoolWindowClass |-> xdotoolWindowClass,
      inTerminal |-> inTerminal,
      kdotoolWindowClass |-> getKdotoolWindowClass(xdotoolWindowClass, r4.exists, inst, focus),
      candidates |-> cands,
      available |-> FilterTools(cands, okCmds),
      cache |-> r4.cache, probedNow |-> probedNow]

\* checkPasteTools() on Linux
SeqToSet(s) == {s[i] : i \in 1..Len(s)}

\* `method: available ? tools[0] : null`
\* (methodOfLast is the faulty variant that reports the last tool)
methodOfLast(tools) == IF Len(tools) > 0 THEN tools[Len(tools)] ELSE "null"
methodOf(tools) == IF Len(tools) > 0 THEN tools[1] ELSE "null"

\* `const canUseXdotool = !isWayland || xwaylandAvailable;` of checkPasteTools
\* (checkCanUseXdotoolAlways is the faulty variant that ignores the session)
checkCanUseXdotoolAlways(info) == TRUE
checkCanUseXdotool(info) == ~info.isWayland \/ info.xwaylandAvailable

\* throws says that spawnSync throws inside the commandExists calls
checkPasteTools(plat, e, cache0, t, inst, throws) ==
  IF plat = "darwin"
  THEN [platform |-> "darwin", available |-> TRUE, method |-> "applescript",
        tools |-> <<>>, recommendedInstall |-> "undefined", cache |-> cache0, probedNow |-> {}]
  ELSE IF plat = "win32"
  THEN [platform |-> "win32", available |-> TRUE, method |-> "powershell",
        tools |-> <<>>, recommendedInstall |-> "undefined", cache |-> cache0, probedNow |-> {}]
  ELSE
  LET info == SessionInfoTable[e]
      useW == canUseWtype(info)
      useY == canUseYdotool(info)
      useX == checkCanUseXdotool(info)
      rW == IF useW THEN commandExists(cache0, "wtype", t, inst, throws)
            ELSE [exists |-> FALSE, cache |-> cache0, probed |-> FALSE]
      rX == IF useX THEN commandExists(rW.cache, "xdotool", t, inst, throws)
            ELSE [exists |-> FALSE, cache |-> rW.cache, probed |-> FALSE]
      rY == IF useY THEN commandExists(rX.cache, "ydotool", t, inst, throws)
            ELSE [exists |-> FALSE, cache |-> rX.cache, probed |-> FALSE]
      tools == (IF useW /\ rW.exists THEN <<"wtype">> ELSE <<>>)
               \o (IF useX /\ rX.exists THEN <<"xdotool">> ELSE <<>>)
               \o (IF useY /\ rY.exists THEN <<"ydotool">> ELSE <<>>)
      available == Len(tools) > 0
      recommendedInstall ==
        IF available THEN "undefined"
        ELSE IF ~info.isWayland THEN "xdotool"
        ELSE IF info.isGnome THEN (IF info.xwaylandAvailable THEN "xdotool" ELSE "undefined")
        ELSE (IF info.xwaylandAvailable THEN "xdotool" ELSE "wtype or xdotool")
  IN [platform |-> "linux", available |-> available,
      method |-> IF available THEN methodOf(tools) ELSE "null",
      tools |-> tools, recommendedInstall |-> recommendedInstall,
      cache |-> rY.cache,
      probedNow |-> {c \in Tools : \/ (c = "wtype" /\ rW.probed) \/ (c = "xdotool" /\ rX.probed)
                                    \/ (c = "ydotool" /\ rY.probed)}]

\* ------------------------------------------------------------------------
\* Error messages of pasteText (base message, before the attempt summary)
\* ------------------------------------------------------------------------
MSG_MAC_PERMISSION == "Accessibility permissions required for automatic pasting. Text has been copied to clipboard - please paste manually with Cmd+V."
MSG_MAC_CODE == "Paste failed (code). Text is copied to clipboard - please paste manually with Cmd+V."
MSG_MAC_SPAWN == "Paste command failed. Text is copied to clipboard - please paste manually with Cmd+V."
MSG_MAC_TIMEOUT == "Paste operation timed out. Text is copied to clipboard - please paste manually with Cmd+V."
MSG_WIN_CODE == "Windows paste failed with code. Text is copied to clipboard - please paste manually with Ctrl+V."
MSG_WIN_SPAWN == "Windows paste failed. Text is copied to clipboard - please paste manually with Ctrl+V."
MSG_WIN_TIMEOUT == "Paste operation timed out. Text is copied to clipboard - please paste manually with Ctrl+V."
MSG_GNOME_BLOCKS == "Clipboard copied, but GNOME Wayland blocks automatic pasting. Please paste manually with Ctrl+V."
MSG_GNOME_NEEDS_XDOTOOL == "Clipboard copied, but automatic pasting on GNOME Wayland requires xdotool for XWayland apps. Please install xdotool or paste manually with Ctrl+V."
MSG_GNOME_NOT_XWAYLAND == "Clipboard copied, but the active app isn't running under XWayland. Please paste manually with Ctrl+V."
MSG_GNOME_XWAYLAND_FAILED == "Clipboard copied, but paste simulation failed via XWayland. Please paste manually with Ctrl+V."
MSG_WAYLAND_NEEDS_TOOL == "Clipboard copied, but automatic pasting on Wayland requires wtype or xdotool. Please install one or paste manually with Ctrl+V."
MSG_WAYLAND_NEEDS_TOOL_XW == "Clipboard copied, but automatic pasting on Wayland requires xdotool (recommended for Electron/XWayland apps) or wtype. Please install one or paste manually with Ctrl+V."
MSG_WAYLAND_FAILED == "Clipboard copied, but paste simulation failed on Wayland. Your compositor may not support the virtual keyboard protocol. Alternatively, paste manually with Ctrl+V."
MSG_WAYLAND_FAILED_NOTE == "Clipboard copied, but paste simulation failed on Wayland. Your compositor may not support the virtual keyboard protocol. Consider installing xdotool, which works well with Electron apps running under XWayland. Alternatively, paste manually with Ctrl+V."
MSG_X11 == "Clipboard copied, but paste simulation failed on X11. Please install xdotool or paste manually with Ctrl+V."
MSG_CLIPBOARD == "clipboard access failed"

\* the errorMsg chosen at the end of pasteLinux
\* (linuxErrorMsgGeneric is the faulty variant without the GNOME branches)
linuxErrorMsgGeneric(p) == IF p.isWayland THEN MSG_WAYLAND_FAILED ELSE MSG_X11
linuxErrorMsg(p) ==
  IF p.isWayland THEN
    IF p.isGnome THEN
      IF ~p.xwaylandAvailable THEN MSG_GNOME_BLOCKS
      ELSE IF ~p.xdotoolExists THEN MSG_GNOME_NEEDS_XDOTOOL
      ELSE IF p.xdotoolWindowClass = <<>> THEN MSG_GNOME_NOT_XWAYLAND
      ELSE MSG_GNOME_XWAYLAND_FAILED
    ELSE IF ~p.wtypeExists /\ ~p.xdotoolExists THEN
      IF ~p.xwaylandAvailable THEN MSG_WAYLAND_NEEDS_TOOL ELSE MSG_WAYLAND_NEEDS_TOOL_XW
    ELSE IF p.xwaylandAvailable /\ ~p.xdotoolExists THEN MSG_WAYLAND_FAILED_NOTE
         ELSE MSG_WAYLAND_FAILED
  ELSE MSG_X11

\* Error objects: code is "none" when the Error carries no code property;
\* failedAttempts is <<>> when it carries no failedAttempts property
MkErr(code, msg, attempts) == [code |-> code, msg |-> msg, failedAttempts |-> attempts]
NoErr == MkErr("none", "", <<>>)

\* ------------------------------------------------------------------------
\* Hotkey manager (helpers/hotkeyManager.js)
\* ------------------------------------------------------------------------
GLOBE == "GLOBE"
\* the one-character hotkey made of a backquote, the default outside macOS
BACKTICK == "Backquote"

\* `const fallbackHotkeys = ["F8", "F9", "CommandOrControl+Shift+Space"]`
fallbackHotkeys == <<"F8", "F9", "CommandOrControl+Shift+Space">>

\* the accelerators globalShortcut.register accepts; for any other string
\* it returns false or throws, and setupShortcuts reports a failure
Accelerators == {BACKTICK, "F8", "F9", "CommandOrControl+Shift+Space", "F10", "Alt+R"}

\* `!savedHotkey || savedHotkey.trim() === ""`, over the values sampled here
IsBlank(h) == h \in {"", " "}

\* the fields the constructor sets; mainWindow is set by initializeHotkey
NewHotkeyManager ==
  [currentHotkey |-> BACKTICK, isInitialized |-> FALSE, isListeningMode |-> FALSE,
   gnomeManager |-> FALSE, useGnome |-> FALSE, hotkeyCallback |-> FALSE,
   mainWindow |-> FALSE]

\* What the hotkey manager acts on: the accelerators other applications hold
\* (taken), those this application has registered with globalShortcut, the
\* dictationKey of hotkey-config.json ("" when the file is absent) and of the
\* renderer's localStorage, the session, the GNOME keybinding, the pending
\* registration timer, the main window, and the messages sent to it.
MkHost(taken, config, storage, gnomeWayland) ==
  [taken |-> taken, registered |-> {}, config |-> config, storage |-> storage,
   gnomeWayland |-> gnomeWayland, gnomeBinding |-> "", timer |-> "none",
   windowDestroyed |-> FALSE, sent |-> <<>>, restarts |-> 0]

\* a manager and its host while a method runs; tried lists the hotkeys handed
\* to setupShortcuts with their outcome, success is the latest result
Running(m, e) == [m |-> m, e |-> e, tried |-> <<>>, success |-> FALSE, threw |-> FALSE]

\* globalShortcut.unregister(accelerator)
Unregister(H, h) == [H EXCEPT !.e.registered = @ \ {h}]

\* setupShortcuts(hotkey, callback)
setupShortcuts(H, hotkey, plat) ==
  IF hotkey = H.m.currentHotkey /\ hotkey # GLOBE /\ hotkey \in H.e.registered
  THEN [H EXCEPT !.success = TRUE, !.tried = Append(@, [hotkey |-> hotkey, ok |-> TRUE])]
  ELSE
    LET H1 == IF H.m.currentHotkey # "" /\ H.m.currentHotkey # GLOBE
              THEN Unregister(H, H.m.currentHotkey)
              ELSE H
    IN IF hotkey = GLOBE
       THEN IF plat # "darwin"
            THEN [H1 EXCEPT !.success = FALSE,
                            !.tried = Append(@, [hotkey |-> hotkey, ok |-> FALSE])]
            ELSE [H1 EXCEPT !.m.currentHotkey = hotkey, !.success = TRUE,
                            !.tried = Append(@, [hotkey |-> hotkey, ok |-> TRUE])]
       ELSE LET H2 == IF plat = "linux" THEN Unregister(H1, hotkey) ELSE H1
            IN IF hotkey \in Accelerators /\ hotkey \notin H2.e.taken
               THEN [H2 EXCEPT !.e.registered = @ \cup {hotkey},
                               !.m.currentHotkey = hotkey, !.success = TRUE,
                               !.tried = Append(@, [hotkey |-> hotkey, ok |-> TRUE])]
               ELSE [H2 EXCEPT !.success = FALSE,
                               !.tried = Append(@, [hotkey |-> hotkey, ok |-> FALSE])]

\* loadHotkeyFromConfig(): "" is null
loadHotkeyFromConfig(e) == IF IsBlank(e.config) THEN "" ELSE e.config

\* saveHotkeyToConfig(hotkey): cfgOk says whether fs.writeFileSync returns
saveHotkeyToConfig(H, hotkey, cfgOk) == IF cfgOk THEN [H EXCEPT !.e.config = hotkey] ELSE H

\* saveHotkeyToRenderer(hotkey): jsOk says whether executeJavaScript
\* resolves.  The hotkey is escaped into a double-quoted literal that the
\* renderer evaluates back to the same string.
saveHotkeyToRenderer(H, hotkey, jsOk) ==
  IF H.m.mainWindow /\ ~H.e.windowDestroyed /\ jsOk
  THEN [H EXCEPT !.e.storage = hotkey]
  ELSE H

\* this.mainWindow.webContents.send(channel, payload), guarded as in
\* notifyHotkeyFallback and notifyHotkeyFailure
notifyHotkeyFallback(H, originalHotkey, fallbackHotkey) ==
  IF H.m.mainWindow /\ ~H.e.windowDestroyed
  THEN [H EXCEPT !.e.sent = Append(@, [channel |-> "hotkey-fallback-used",
                                       hotkey |-> fallbackHotkey,
                                       original |-> originalHotkey])]
  ELSE H

notifyHotkeyFailure(H, hotkey) ==
  IF H.m.mainWindow /\ ~H.e.windowDestroyed
  THEN [H EXCEPT !.e.sent = Append(@, [channel |-> "hotkey-registration-failed",
                                       hotkey |-> hotkey, original |-> ""])]
  ELSE H

\* the `for (const fallback of fallbackHotkeys)` loop and what follows it
RECURSIVE tryFallbacks(_, _, _, _, _)
tryFallbacks(H, i, plat, jsOk, defaultHotkey) ==
  IF i > Len(fallbackHotkeys)
  THEN notifyHotkeyFailure(H, defaultHotkey)
  ELSE LET Hf == setupShortcuts(H, fallbackHotkeys[i], plat)
       IN IF Hf.success
          THEN notifyHotkeyFallback(saveHotkeyToRenderer(Hf, fallbackHotkeys[i], jsOk),
                                    defaultHotkey, fallbackHotkeys[i])
          ELSE tryFallbacks(Hf, i + 1, plat, jsOk, defaultHotkey)

\* loadSavedHotkeyOrDefault(mainWindow, callback): readOk says whether the
\* executeJavaScript that reads localStorage resolves; its rejection is
\* caught at the end of the function
loadSavedHotkeyOrDefault(H, plat, readOk, jsOk) ==
  LET fromConfig == loadHotkeyFromConfig(H.e) IN
  IF fromConfig = "" /\ ~readOk
  THEN [H EXCEPT !.threw = TRUE]
  ELSE
    LET savedHotkey == IF fromConfig # "" THEN fromConfig ELSE H.e.storage
        Hs == IF IsBlank(savedHotkey) THEN H ELSE setupShortcuts(H, savedHotkey, plat)
    IN IF ~IsBlank(savedHotkey) /\ Hs.success
       THEN Hs
       ELSE
         LET H0 == IF IsBlank(savedHotkey) THEN H ELSE notifyHotkeyFailure(Hs, savedHotkey)
             defaultHotkey == IF plat = "darwin" THEN GLOBE ELSE BACKTICK
         IN IF defaultHotkey = GLOBE
            THEN [H0 EXCEPT !.m.currentHotkey = GLOBE]
            ELSE LET Hd == setupShortcuts(H0, defaultHotkey, plat)
                 IN IF Hd.success THEN Hd
                    ELSE tryFallbacks(Hd, 1, plat, jsOk, defaultHotkey)

\* updateHotkey(hotkey, callback).  gnomeOk says whether
\* gnomeManager.updateKeybinding resolves true (false or a rejection both end
\* in success: false).
updateHotkey(H, hotkey, plat, gnomeOk, cfgOk, jsOk) ==
  IF H.m.useGnome /\ H.m.gnomeManager
  THEN IF ~gnomeOk
       THEN [H EXCEPT !.success = FALSE]
       ELSE [saveHotkeyToRenderer([H EXCEPT !.m.currentHotkey = hotkey,
                                            !.e.gnomeBinding = hotkey], hotkey, jsOk)
               EXCEPT !.success = TRUE]
  ELSE LET r == setupShortcuts(H, hotkey, plat)
       IN IF r.success
          THEN saveHotkeyToRenderer(saveHotkeyToConfig(r, hotkey, cfgOk), hotkey, jsOk)
          ELSE r

\* initializeHotkey(mainWindow, callback), up to its return; dbusOk says
\* whether gnomeManager.initDBusService resolves true
initializeHotkey(H, plat, dbusOk) ==
  LET H1 == [H EXCEPT !.m.mainWindow = TRUE, !.m.hotkeyCallback = TRUE]
      H2 == IF plat = "linux" /\ H1.e.gnomeWayland
            THEN [H1 EXCEPT !.m.gnomeManager = TRUE, !.m.useGnome = dbusOk]
            ELSE H1
  IN IF H2.m.useGnome
     THEN [H2 EXCEPT !.e.timer = "gnome", !.m.isInitialized = TRUE]
     ELSE
       LET H3 == IF plat = "linux" THEN [H2 EXCEPT !.e.registered = {}] ELSE H2
           savedHotkey == loadHotkeyFromConfig(H3.e)
           Hs == IF savedHotkey # "" THEN setupShortcuts(H3, savedHotkey, plat) ELSE H3
       IN IF savedHotkey # "" /\ Hs.success
          THEN [Hs EXCEPT !.m.isInitialized = TRUE]
          ELSE [Hs EXCEPT !.e.timer = "load", !.m.isInitialized = TRUE]

\* registerGnomeHotkey, the timer callback of the GNOME path; gnomeOk says
\* whether gnomeManager.registerKeybinding resolves true, readAgainOk whether
\* the localStorage read of the fallback resolves
registerGnomeHotkey(H, plat, readOk, gnomeOk, readAgainOk, jsOk) ==
  LET fromConfig == loadHotkeyFromConfig(H.e)
      savedHotkey == IF fromConfig # "" THEN fromConfig ELSE H.e.storage
      hotkey == IF IsBlank(savedHotkey) THEN "Alt+R" ELSE savedHotkey
  IN IF (fromConfig = "" /\ ~readOk) \/ ~gnomeOk
     THEN loadSavedHotkeyOrDefault([H EXCEPT !.m.useGnome = FALSE], plat, readAgainOk, jsOk)
     ELSE [H EXCEPT !.m.currentHotkey = hotkey, !.e.gnomeBinding = hotkey, !.success = TRUE]

\* the saved hotkey an initialization restores: the config file first, the
\* renderer storage second ("" when neither holds one)
SavedHotkey(e) ==
  IF loadHotkeyFromConfig(e) # "" THEN loadHotkeyFromConfig(e)
  ELSE IF IsBlank(e.storage) THEN "" ELSE e.storage

\* ------------------------------------------------------------------------
\* Hotkey callback (helpers/windowManager.js)
\* ------------------------------------------------------------------------
DEBOUNCE_MS == 150

\* Date.now() when the application starts (any value beyond DEBOUNCE_MS)
StartTime == 1000

\* the closure of createHotkeyCallback (lastToggleTime), the invocations
\* suspended in `await this.getActivationMode()` (pending), the record of the
\* invocations that ran to their end (log), and windowsPushToTalkAvailable
NewToggle(pushAvailable) ==
  [now |-> StartTime, lastToggleTime |-> 0, pending |-> {}, count |-> 0, log |-> <<>>,
   steps |-> 0, windowsPushToTalkAvailable |-> pushAvailable]

\* the callback from `const now = Date.now()` on, for invocation inv
debounce(T, inv, listening) ==
  IF T.now - T.lastToggleTime < DEBOUNCE_MS
  THEN [T EXCEPT !.log = Append(@, [id |-> inv.id, invokedAt |-> inv.at, at |-> T.now,
                                    sent |-> FALSE, listening |-> listening,
                                    lastBefore |-> T.lastToggleTime])]
  ELSE [T EXCEPT !.lastToggleTime = T.now,
                 !.log = Append(@, [id |-> inv.id, invokedAt |-> inv.at, at |-> T.now,
                                    sent |-> TRUE, listening |-> listening,
                                    lastBefore |-> T.lastToggleTime])]

\* the callback up to its first suspension or its end
hotkeyCallback(T, plat, listening) ==
  LET inv == [id |-> T.count + 1, at |-> T.now]
      T1 == [T EXCEPT !.count = @ + 1]
  IN IF listening THEN T1
     ELSE IF plat = "win32" /\ T.windowsPushToTalkAvailable
     THEN [T1 EXCEPT !.pending = @ \cup {inv}]
     ELSE debounce(T1, inv, listening)

\* the callback after `await this.getActivationMode()` resolved with mode
afterActivationMode(T, inv, mode, listening) ==
  LET T1 == [T EXCEPT !.pending = @ \ {inv}]
  IN IF mode = "push" THEN T1 ELSE debounce(T1, inv, listening)

\* ------------------------------------------------------------------------
\* Dev server (helpers/devServerManager.js)
\* ------------------------------------------------------------------------
\* waitForDevServer is idle, probing (awaiting the promise around http.get),
\* sleeping (awaiting the delay) or has returned; i is the loop variable,
\* probes lists the outcome of each http.get
NoDevServer ==
  [phase |-> "idle", i |-> 0, maxAttempts |-> 0, urlValid |-> TRUE, probes |-> <<>>,
   result |-> FALSE]

\* `res.statusCode >= 200 && res.statusCode < 400`
statusOk(statusCode) == statusCode >= 200 /\ statusCode < 400

\* the head of `for (let i = 0; i < maxAttempts; i++)` and the start of its
\* body: `new URL(url)` throws for an invalid url, which the catch swallows
\* (loopHeadOneMore is the faulty variant that iterates once more)
loopHeadOneMore(D) ==
  IF D.i <= D.maxAttempts
  THEN IF D.urlValid
       THEN [D EXCEPT !.phase = "probing",
                      !.probes = Append(@, [outcome |-> "pending", status |-> 0])]
       ELSE [D EXCEPT !.phase = "sleeping"]
  ELSE [D EXCEPT !.phase = "returned", !.result = FALSE]
loopHead(D) ==
  IF D.i < D.maxAttempts
  THEN IF D.urlValid
       THEN [D EXCEPT !.phase = "probing",
                      !.probes = Append(@, [outcome |-> "pending", status |-> 0])]
       ELSE [D EXCEPT !.phase = "sleeping"]
  ELSE [D EXCEPT !.phase = "returned", !.result = FALSE]

\* resolve(value) of the promise around http.get, and the rest of the loop
\* body.  A probe is resolved once: by the response, by 'error', or by
\* 'timeout' (which destroys the request; an 'error' that follows resolves
\* the settled promise again, without effect).
probeResolved(D, outcome, statusCode, value) ==
  LET D1 == [D EXCEPT !.probes[Len(D.probes)] = [outcome |-> outcome, status |-> statusCode]]
  IN IF value
     THEN [D1 EXCEPT !.phase = "returned", !.result = TRUE]
     ELSE [D1 EXCEPT !.phase = "sleeping"]

\* ------------------------------------------------------------------------
\* State
\* ------------------------------------------------------------------------
\* A process record also keeps, for the properties, when its pre-paste delay
\* was armed (armedAt), when it was killed (killedAt), when it ended (exitAt)
\* and how many clipboard accesses had been made by then (exitLog).
VARIABLES
  platform,                  \* process.platform
  env,                       \* process.env (session variables)
  installed,                 \* tools that `command -v` finds right now
  nircmdOnDisk,              \* whether nircmd.exe exists at one of the probed paths
  axGranted,                 \* whether macOS grants the accessibility permission
  commandAvailabilityCache,  \* this.commandAvailabilityCache
  accessibilityCache,        \* this.accessibilityCache
  nircmdChecked,             \* this.nircmdChecked
  nircmdPath,                \* this.nircmdPath ("" is null)
  clipboard,                 \* the OS clipboard text
  now,                       \* Date.now()
  timers,                    \* pending setTimeout callbacks
  tseq,                      \* number of timers created so far
  procs,                     \* child processes spawned so far
  call,                      \* the latest pasteText invocation
  ncalls,                    \* number of pasteText invocations so far
  ticks,                     \* number of time steps taken by the environment
  envChanges,                \* number of environment changes so far
  clipLog,                   \* history of clipboard accesses
  dialogs,                   \* permission dialogs shown so far
  lastCall,                  \* the latest commandExists call (observer)
  lastProbe,                 \* time and outcome of the latest existence probe per tool (observer)
  lastTools,                 \* the latest checkPasteTools result (observer)
  lastClip,                  \* the latest readClipboard/writeClipboard call (observer)
  lastAx,                    \* the latest direct checkAccessibilityPermissions call (observer)
  settings,                  \* the permission dialog and the openSystemSettings sequence
  hotkeyManager,             \* the fields of the HotkeyManager instance
  host,                      \* globalShortcut, hotkey-config.json, localStorage, main window
  lastHotkeyOp,              \* the latest HotkeyManager method that ran (observer)
  toggle,                    \* the closure of createHotkeyCallback and its invocations
  devServer                  \* the waitForDevServer call

\* the application shell around the engine
shellVars == <<hotkeyManager, host, lastHotkeyOp, toggle, devServer>>

vars == <<platform, env, installed, nircmdOnDisk, axGranted, commandAvailabilityCache,
          accessibilityCache, nircmdChecked, nircmdPath, clipboard, now, timers, tseq,
          procs, call, ncalls, ticks, envChanges, clipLog, dialogs, lastCall, lastProbe,
          lastTools, lastClip, lastAx, settings, shellVars>>

envVars == <<platform, env, installed, nircmdOnDisk, axGranted>>

\* the text handed to the k-th pasteText call
TextOf(k) == IF k % 2 = 1 THEN "hello" ELSE "world"
ORIGINAL == "original"

NoTool == MkTool("", <<>>)

NoPlan ==
  [isWayland |-> FALSE, xwaylandAvailable |-> FALSE, isGnome |-> FALSE,
   xdotoolExists |-> FALSE, wtypeExists |-> FALSE, ydotoolExists |-> FALSE,
   targetWindowId |-> "", xdotoolWindowClass |-> <<>>, inTerminal |-> FALSE,
   kdotoolWindowClass |-> <<>>,
   candidates |-> <<>>, available |-> <<>>]

PlanOf(lp) ==
  [isWayland |-> lp.isWayland, xwaylandAvailable |-> lp.xwaylandAvailable,
   isGnome |-> lp.isGnome,
   xdotoolExists |-> lp.xdotoolExists, wtypeExists |-> lp.wtypeExists,
   ydotoolExists |-> lp.ydotoolExists,
   targetWindowId |-> lp.targetWindowId, xdotoolWindowClass |-> lp.xdotoolWindowClass,
   inTerminal |-> lp.inTerminal, kdotoolWindowClass |-> lp.kdotoolWindowClass,
   candidates |-> lp.candidates, available |-> lp.available]

\* The value a pasteText promise resolves with.  The function has no return
\* statement, so the value is undefined: a record without content here.
Undefined == [defined |-> FALSE, succeeded |-> FALSE, toolUsed |-> "", failedAttempts |-> <<>>]

NoCall ==
  [id |-> 0, status |-> "none", text |-> "", originalClipboard |-> "",
   readOk |-> FALSE, wrote |-> FALSE, err |-> NoErr, stage |-> "none",
   plan |-> NoPlan, idx |-> 0, failedAttempts |-> <<>>, toolUsed |-> "",
   quietStart |-> TRUE, earlierResolved |-> TRUE, hasPermissions |-> "unknown",
   value |-> Undefined]

NoLastCall ==
  [cmd |-> "none", at |-> 0, result |-> FALSE, probed |-> FALSE,
   prevProbeAt |-> -1, prevExists |-> FALSE, othersKept |-> TRUE, probeFailed |-> FALSE]

NoProbe == [at |-> -1, exists |-> FALSE]

\* observer update after a batch of commandExists calls made at time t
NoteProbes(lp, probedNow, cache1, t) ==
  [c \in Tools |-> IF c \in probedNow THEN [at |-> t, exists |-> cache1[c].exists] ELSE lp[c]]

NoClip == [op |-> "none", failed |-> FALSE, threw |-> FALSE, value |-> "", text |-> "",
           was |-> ""]

\* the text handed to writeClipboard
ClipTexts == {"note"}

\* no direct checkAccessibilityPermissions call yet
NoAx == [at |-> -1, spawned |-> FALSE, returned |-> "none", prevValue |-> "null",
         prevExpiresAt |-> 0]

\* no dialog answered and openSystemSettings not called: commandIndex is the
\* closure variable of openSystemSettings, launched the processes it spawned
NoSettings == [dialog |-> "unanswered", commandIndex |-> 0, launched |-> <<>>]

NoLastTools == [asked |-> FALSE, tools |-> <<>>, available |-> FALSE, method |-> "null",
                recommendedInstall |-> "undefined", isGnome |-> FALSE]

\* the latest HotkeyManager method that ran: its argument and result, the
\* hotkeys it handed to setupShortcuts, whether it took the GNOME path, and
\* the registration state it found; n counts the direct calls
NoHotkeyOp ==
  [op |-> "none", arg |-> "", success |-> FALSE, threw |-> FALSE, tried |-> <<>>,
   viaGnome |-> FALSE, registeredBefore |-> {}, currentBefore |-> "", sentBefore |-> 0,
   storageBefore |-> "", n |-> 0]

\* the engine and its environment after construction
ManagerInit ==
  /\ platform \in {"darwin", "win32", "linux"}
  /\ env \in (IF platform = "linux" THEN LinuxEnvs ELSE {NoEnv})
  /\ installed \in (IF platform = "linux"
                    THEN InstalledSets
                    ELSE {{}})
  /\ nircmdOnDisk \in (IF platform = "win32" THEN BOOLEAN ELSE {FALSE})
  /\ axGranted \in (IF platform = "darwin" THEN BOOLEAN ELSE {FALSE})
  /\ commandAvailabilityCache = [c \in Tools |-> NoEntry]
  /\ accessibilityCache = [value |-> "null", expiresAt |-> 0]
  /\ nircmdChecked = FALSE
  /\ nircmdPath = ""
  /\ clipboard = ORIGINAL
  /\ now = 0
  /\ timers = {}
  /\ tseq = 0
  /\ procs = <<>>
  /\ call = NoCall
  /\ ncalls = 0
  /\ ticks = 0
  /\ envChanges = 0
  /\ clipLog = <<>>
  /\ dialogs = 0
  /\ lastCall = NoLastCall
  /\ lastProbe = [c \in Tools |-> NoProbe]
  /\ lastTools = NoLastTools
  /\ lastClip = NoClip
  /\ lastAx = NoAx
  /\ settings = NoSettings

\* the application shell before anything ran in it
ShellAtRest ==
  /\ hotkeyManager = NewHotkeyManager
  /\ host = MkHost({}, "", "", FALSE)
  /\ lastHotkeyOp = NoHotkeyOp
  /\ toggle = NewToggle(FALSE)
  /\ devServer = NoDevServer

Init == ManagerInit /\ ShellAtRest

\* ------------------------------------------------------------------------
\* The mutable part of the engine as one record, so that a handler that calls
\* another one is the composition of two functions on it.
\* ------------------------------------------------------------------------
Cur ==
  [procs |-> procs, timers |-> timers, tseq |-> tseq, call |-> call,
   clipboard |-> clipboard, clipLog |-> clipLog, now |-> now,
   accessibilityCache |-> accessibilityCache, dialogs |-> dialogs]

Apply(S) ==
  /\ procs' = S.procs
  /\ timers' = S.timers
  /\ tseq' = S.tseq
  /\ call' = S.call
  /\ clipboard' = S.clipboard
  /\ clipLog' = S.clipLog
  /\ now' = S.now
  /\ accessibilityCache' = S.accessibilityCache
  /\ dialogs' = S.dialogs

LogEntry(cid, op, val, t) == [call |-> cid, op |-> op, val |-> val, at |-> t]

\* setTimeout(callback, delay)
SetTimeout(S, cid, kind, delay, role, tool, proc, value) ==
  [S EXCEPT !.tseq = @ + 1,
            !.timers = @ \cup {[id |-> S.tseq + 1, kind |-> kind, at |-> S.now + delay,
                                setAt |-> S.now,
                                call |-> cid, role |-> role, tool |-> tool,
                                proc |-> proc, value |-> value]}]

\* clearTimeout(timeoutId)
ClearTimeout(S, tid) == [S EXCEPT !.timers = {t \in @ : t.id # tid}]

\* resolve()/reject(err) of the promise pasteText awaits: only the first
\* settlement of a promise has an effect
SettleCall(S, cid, status, err, toolUsed) ==
  IF S.call.id = cid /\ S.call.status = "running"
  THEN [S EXCEPT !.call.status = status, !.call.err = err, !.call.toolUsed = toolUsed,
                 !.call.value = Undefined]
  ELSE S

\* clipboard.writeText(value)
WriteClipboard(S, cid, op, value) ==
  [S EXCEPT !.clipboard = value,
            !.clipLog = Append(@, LogEntry(cid, op, value, S.now))]

\* ------------------------------------------------------------------------
\* Child processes
\* ------------------------------------------------------------------------
OSASCRIPT == MkTool("osascript", <<"-e", "keystroke v using command down">>)
NIRCMD == MkTool("nircmd.exe", <<"sendkeypress", "ctrl+v">>)
POWERSHELL == MkTool("powershell.exe", <<"-NoProfile", "-NonInteractive", "-Command", "SendWait(^v)">>)
AXPROBE == MkTool("osascript", <<"-e", "get name of first process">>)

PasteRoles == {"osascript", "nircmd", "powershell", "linux", "type"}

\* the timeout each strategy arms right after spawn
TimeoutOf(role) ==
  CASE role = "osascript" -> MACOS_TIMEOUT_MS
    [] role = "nircmd" -> NIRCMD_TIMEOUT_MS
    [] role = "powershell" -> PWSH_TIMEOUT_MS
    [] OTHER -> LINUX_TIMEOUT_MS

\* the delay before the original clipboard is written back
\* (RestoreDelayOfNone is the faulty variant that restores at once)
RestoreDelayOfNone(role) == 0
RestoreDelayOf(role) ==
  CASE role = "osascript" -> 100
    [] role = "nircmd" -> RESTORE_DELAYS.win32_nircmd
    [] role = "powershell" -> RESTORE_DELAYS.win32_pwsh
    [] OTHER -> RESTORE_DELAYS.linux

\* const delay = isWayland ? 0 : PASTE_DELAYS.linux
\* (LinuxDelayFixed is the faulty variant that always waits)
LinuxDelayFixed(isWayland) == PASTE_DELAYS.linux
LinuxDelay(isWayland) == IF isWayland THEN 0 ELSE PASTE_DELAYS.linux

MkProc(cid, role, tool, orig, tid, t, clip) ==
  [call |-> cid, role |-> role, cmd |-> tool.cmd, args |-> tool.args, orig |-> orig,
   phase |-> "running", listening |-> TRUE, timedOut |-> FALSE, settled |-> FALSE,
   tid |-> tid, spawnedAt |-> t, exitAt |-> -1, exitCode |-> -1, clipAtSpawn |-> clip,
   armedAt |-> t, killedAt |-> -1, exitLog |-> -1]

\* spawn(cmd, args) followed by arming the attempt timeout
SpawnWithTimeout(S, cid, role, tool, orig) ==
  LET p == Len(S.procs) + 1
      S1 == [S EXCEPT !.procs = Append(@, MkProc(cid, role, tool, orig, S.tseq + 1,
                                                  S.now, S.clipboard))]
  IN SetTimeout(S1, cid, "timeout", TimeoutOf(role), role, tool, p, orig)

\* spawn of the accessibility probe: no timeout is armed
SpawnProbe(S, cid) ==
  [S EXCEPT !.procs = Append(@, MkProc(cid, "probe", AXPROBE, "", 0, S.now, S.clipboard))]

\* killProcess(proc, "SIGKILL"): the process is terminated; its close event
\* follows
killProcess(S, p) ==
  IF S.procs[p].phase = "running"
  THEN [S EXCEPT !.procs[p].phase = "killed", !.procs[p].killedAt = S.now]
  ELSE S

\* pasteProcess.removeAllListeners()
RemoveAllListeners(S, p) == [S EXCEPT !.procs[p].listening = FALSE]

\* setTimeout(() => clipboard.writeText(originalClipboard), restoreDelay)
ScheduleRestore(S, p) ==
  SetTimeout(S, S.procs[p].call, "restore", RestoreDelayOf(S.procs[p].role),
             S.procs[p].role, NoTool, p, S.procs[p].orig)

\* ------------------------------------------------------------------------
\* macOS
\* ------------------------------------------------------------------------
\* pasteMacOS(originalClipboard): arms the pre-paste delay
pasteMacOS(S, cid, orig) ==
  SetTimeout([S EXCEPT !.call.stage = "paste"], cid, "delay", PASTE_DELAY_MS,
             "osascript", OSASCRIPT, 0, orig)

\* pasteText, darwin branch after `await this.checkAccessibilityPermissions()`
\* (DarwinAfterPermissionUngated is the faulty variant that pastes regardless)
DarwinAfterPermissionUngated(S, cid, hasPermissions) ==
  pasteMacOS([S EXCEPT !.call.hasPermissions = IF hasPermissions THEN "yes" ELSE "no"],
             cid, S.call.originalClipboard)
DarwinAfterPermission(S, cid, hasPermissions) ==
  LET S1 == [S EXCEPT !.call.hasPermissions = IF hasPermissions THEN "yes" ELSE "no"] IN
  IF ~hasPermissions
  THEN SettleCall(S1, cid, "rejected", MkErr("none", MSG_MAC_PERMISSION, <<>>), "")
  ELSE pasteMacOS(S1, cid, S1.call.originalClipboard)

\* the continuation runs only for the call that awaits this probe
ResumeAfterProbe(S, p, allowed) ==
  LET cid == S.procs[p].call IN
  IF S.procs[p].settled THEN S
  ELSE LET S1 == [S EXCEPT !.procs[p].settled = TRUE] IN
       IF S1.call.id = cid /\ S1.call.status = "running" /\ S1.call.stage = "permission"
       THEN DarwinAfterPermission(S1, cid, allowed)
       ELSE S1

\* ------------------------------------------------------------------------
\* Windows
\* ------------------------------------------------------------------------
\* pasteWithPowerShell(originalClipboard): arms the pre-paste delay
pasteWithPowerShell(S, cid, orig) ==
  SetTimeout(S, cid, "delay", PASTE_DELAYS.win32_pwsh, "powershell", POWERSHELL, 0, orig)

\* pasteWithNircmd(nircmdPath, originalClipboard)
pasteWithNircmd(S, cid, orig) ==
  SetTimeout(S, cid, "delay", PASTE_DELAYS.win32_nircmd, "nircmd", NIRCMD, 0, orig)

\* pasteWindows(originalClipboard)
\* (pasteWindowsScriptOnly is the faulty variant that never tries nircmd)
pasteWindowsScriptOnly(S, cid, orig, path) ==
  pasteWithPowerShell([S EXCEPT !.call.stage = "paste"], cid, orig)
pasteWindows(S, cid, orig, path) ==
  IF path # "" THEN pasteWithNircmd([S EXCEPT !.call.stage = "paste"], cid, orig)
  ELSE pasteWithPowerShell([S EXCEPT !.call.stage = "paste"], cid, orig)

\* getNircmdPath(): [path, checked] after the call
getNircmdPath(plat, checked, path, onDisk) ==
  IF checked THEN [path |-> path, checked |-> TRUE]
  ELSE IF plat # "win32" THEN [path |-> "", checked |-> TRUE]
  ELSE IF onDisk THEN [path |-> "resources/bin/nircmd.exe", checked |-> TRUE]
  ELSE [path |-> "", checked |-> TRUE]

\* ------------------------------------------------------------------------
\* Linux
\* ------------------------------------------------------------------------
\* the final throw of pasteLinux
\* (LinuxRejectSwallowed is the faulty variant that returns normally instead)
LinuxRejectSwallowed(S) == SettleCall(S, S.call.id, "resolved", NoErr, "")
LinuxReject(S) ==
  SettleCall(S, S.call.id, "rejected",
             MkErr("PASTE_SIMULATION_FAILED", linuxErrorMsg(S.call.plan),
                   S.call.failedAttempts), "")

\* the for-loop of pasteLinux at index i, and what follows the loop
\* (LinuxLoopNoGuard is the faulty variant whose type fallback has no guard)
LinuxLoopNoGuard(S, i) ==
  LET c == S.call
      pl == c.plan
  IN IF i <= Len(pl.available)
     THEN SetTimeout([S EXCEPT !.call.idx = i, !.call.stage = "candidates"], c.id, "delay",
                     LinuxDelay(pl.isWayland), "linux", pl.available[i], 0,
                     c.originalClipboard)
     ELSE LET textToType == S.clipboard
              S1 == [S EXCEPT !.call.stage = "typeFallback",
                              !.clipLog = Append(@, LogEntry(c.id, "read", textToType, S.now))]
          IN SetTimeout(S1, c.id, "delay", LinuxDelay(pl.isWayland), "type",
                        MkTool("xdotool", typeArgs(pl.targetWindowId, textToType)), 0,
                        c.originalClipboard)
LinuxLoop(S, i) ==
  LET c == S.call
      pl == c.plan
  IN IF i <= Len(pl.available)
     THEN SetTimeout([S EXCEPT !.call.idx = i, !.call.stage = "candidates"], c.id, "delay",
                     LinuxDelay(pl.isWayland), "linux", pl.available[i], 0,
                     c.originalClipboard)
     ELSE IF pl.inTerminal /\ pl.xdotoolExists /\ ~pl.isWayland
     THEN LET textToType == S.clipboard
              S1 == [S EXCEPT !.call.stage = "typeFallback",
                              !.clipLog = Append(@, LogEntry(c.id, "read", textToType, S.now))]
          IN SetTimeout(S1, c.id, "delay", LinuxDelay(pl.isWayland), "type",
                        MkTool("xdotool", typeArgs(pl.targetWindowId, textToType)), 0,
                        c.originalClipboard)
     ELSE LinuxReject(S)

\* catch block of an attempt: record the failure and go on
LinuxFailed(S, p, msg) ==
  LET pr == S.procs[p]
      name == IF pr.role = "type" THEN "xdotool type" ELSE pr.cmd
      S1 == [S EXCEPT !.call.failedAttempts =
                        Append(@, [tool |-> name, args |-> pr.args, error |-> msg])]
  IN IF pr.role = "type" THEN LinuxReject(S1) ELSE LinuxLoop(S1, S1.call.idx + 1)

\* reject(...) of the promise of attempt p (first settlement only)
\* (RejectAttemptOneReason is the faulty variant that reports every failure as
\* an exit code)
RejectAttemptOneReason(S, p, msg) ==
  IF S.procs[p].settled THEN S
  ELSE LinuxFailed([S EXCEPT !.procs[p].settled = TRUE], p, "exited with code")
RejectAttempt(S, p, msg) ==
  IF S.procs[p].settled THEN S
  ELSE LinuxFailed([S EXCEPT !.procs[p].settled = TRUE], p, msg)

\* resolve() of the promise of attempt p (first settlement only)
ResolveAttempt(S, p) ==
  IF S.procs[p].settled THEN S
  ELSE LET pr == S.procs[p]
           name == IF pr.role = "type" THEN "xdotool type" ELSE pr.cmd
       IN SettleCall([S EXCEPT !.procs[p].settled = TRUE], pr.call, "resolved", NoErr, name)

\* ------------------------------------------------------------------------
\* Event handlers
\* ------------------------------------------------------------------------
\* the callback of the pre-paste setTimeout: spawn the tool, arm its timeout
\* (armedAt remembers when that setTimeout was called)
OnDelay(S, tm) ==
  LET S1 == SpawnWithTimeout(S, tm.call, tm.role, tm.tool, tm.value)
  IN [S1 EXCEPT !.procs[Len(S1.procs)].armedAt = tm.setAt]

\* the callback of the restore setTimeout
OnRestore(S, tm) == WriteClipboard(S, tm.call, "restore", tm.value)

\* the callback of the attempt timeout of process p
\* (OnTimeoutNoSettle is the faulty variant that kills the process, drops its
\* listeners and neither rejects nor falls back)
OnTimeoutNoSettle(S, p) ==
  LET pr == S.procs[p]
      S1 == killProcess([S EXCEPT !.procs[p].timedOut = TRUE], p)
  IN RemoveAllListeners(S1, p)
OnTimeout(S, p) ==
  LET pr == S.procs[p]
      S1 == killProcess([S EXCEPT !.procs[p].timedOut = TRUE], p)
  IN CASE pr.role = "osascript" ->
            SettleCall(RemoveAllListeners(S1, p), pr.call, "rejected",
                       MkErr("none", MSG_MAC_TIMEOUT, <<>>), "")
       [] pr.role = "nircmd" ->
            pasteWithPowerShell(RemoveAllListeners(S1, p), pr.call, pr.orig)
       [] pr.role = "powershell" ->
            SettleCall(RemoveAllListeners(S1, p), pr.call, "rejected",
                       MkErr("none", MSG_WIN_TIMEOUT, <<>>), "")
       [] OTHER -> S1

\* proc.on("close", (code) => ...) ; code -1 stands for null (killed by signal)
OnClose(S, p, code) ==
  LET pr == S.procs[p] IN
  CASE pr.role = "osascript" ->
         IF pr.timedOut THEN S
         ELSE LET S1 == RemoveAllListeners(ClearTimeout(S, pr.tid), p) IN
              IF code = 0
              THEN SettleCall(ScheduleRestore(S1, p), pr.call, "resolved", NoErr, "osascript")
              ELSE SettleCall(S1, pr.call, "rejected", MkErr("none", MSG_MAC_CODE, <<>>), "")
    [] pr.role = "nircmd" ->
         IF pr.timedOut THEN S
         ELSE LET S1 == ClearTimeout(S, pr.tid) IN
              IF code = 0
              THEN SettleCall(ScheduleRestore(S1, p), pr.call, "resolved", NoErr, "nircmd")
              ELSE pasteWithPowerShell(S1, pr.call, pr.orig)
    [] pr.role = "powershell" ->
         IF pr.timedOut THEN S
         ELSE LET S1 == ClearTimeout(S, pr.tid) IN
              IF code = 0
              THEN SettleCall(ScheduleRestore(S1, p), pr.call, "resolved", NoErr, "powershell")
              ELSE SettleCall(S1, pr.call, "rejected", MkErr("none", MSG_WIN_CODE, <<>>), "")
    [] pr.role = "probe" ->
         LET allowed == code = 0
             S1 == [S EXCEPT !.accessibilityCache =
                               [value |-> IF allowed THEN "true" ELSE "false",
                                expiresAt |-> S.now + CACHE_TTL_MS],
                             !.dialogs = IF allowed THEN @ ELSE @ + 1]
         IN ResumeAfterProbe(S1, p, allowed)
    [] OTHER ->
         IF pr.timedOut THEN RejectAttempt(S, p, "timed out")
         ELSE LET S1 == ClearTimeout(S, pr.tid) IN
              IF code = 0 THEN ResolveAttempt(ScheduleRestore(S1, p), p)
              ELSE RejectAttempt(S1, p, "exited with code")

\* proc.on("error", (error) => ...)
OnError(S, p) ==
  LET pr == S.procs[p] IN
  CASE pr.role = "osascript" ->
         IF pr.timedOut THEN S
         ELSE SettleCall(RemoveAllListeners(ClearTimeout(S, pr.tid), p), pr.call, "rejected",
                         MkErr("none", MSG_MAC_SPAWN, <<>>), "")
    [] pr.role = "nircmd" ->
         IF pr.timedOut THEN S
         ELSE pasteWithPowerShell(ClearTimeout(S, pr.tid), pr.call, pr.orig)
    [] pr.role = "powershell" ->
         IF pr.timedOut THEN S
         ELSE SettleCall(ClearTimeout(S, pr.tid), pr.call, "rejected",
                         MkErr("none", MSG_WIN_SPAWN, <<>>), "")
    [] pr.role = "probe" ->
         ResumeAfterProbe([S EXCEPT !.accessibilityCache =
                                      [value |-> "false", expiresAt |-> S.now + CACHE_TTL_MS]],
                          p, FALSE)
    [] OTHER ->
         IF pr.timedOut THEN S
         ELSE RejectAttempt(ClearTimeout(S, pr.tid), p, "spawn error")

\* ------------------------------------------------------------------------
\* pasteText
\* ------------------------------------------------------------------------
\* process p can no longer run a callback that changes anything
Inert(S, p) ==
  \/ S.procs[p].phase = "closed"
  \/ ~S.procs[p].listening
  \/ /\ S.procs[p].phase = "errored"
     /\ LET S1 == [S EXCEPT !.procs[p].phase = "closed", !.procs[p].exitCode = -2]
        IN OnClose(S1, p, -2) = S1

\* no callback of an earlier call can still run
Quiet(S) ==
  /\ S.timers = {}
  /\ \A p \in 1..Len(S.procs) : Inert(S, p)

\* `const originalClipboard = clipboard.readText(); clipboard.writeText(text);`
\* readOk / writeOk say whether the clipboard call returns or throws
\* (SnapshotAndWriteBlind is the faulty variant that writes before it reads)
SnapshotAndWriteBlind(S, text, readOk, writeOk) ==
  LET cid == S.call.id
      S1 == WriteClipboard(S, cid, "write", text)
  IN [S1 EXCEPT !.call.wrote = TRUE, !.call.readOk = TRUE,
                !.call.originalClipboard = S1.clipboard,
                !.clipLog = Append(@, LogEntry(cid, "read", S1.clipboard, S.now))]
SnapshotAndWrite(S, text, readOk, writeOk) ==
  LET cid == S.call.id IN
  IF ~readOk
  THEN [S EXCEPT !.call.status = "rejected",
                 !.call.err = MkErr("none", MSG_CLIPBOARD, <<>>),
                 !.clipLog = Append(@, LogEntry(cid, "readfail", "", S.now))]
  ELSE LET S1 == [S EXCEPT !.call.readOk = TRUE,
                           !.call.originalClipboard = S.clipboard,
                           !.clipLog = Append(@, LogEntry(cid, "read", S.clipboard, S.now))]
       IN IF ~writeOk
          THEN [S1 EXCEPT !.call.status = "rejected",
                          !.call.err = MkErr("none", MSG_CLIPBOARD, <<>>),
                          !.clipLog = Append(@, LogEntry(cid, "writefail", "", S.now))]
          ELSE [WriteClipboard(S1, cid, "write", text) EXCEPT !.call.wrote = TRUE]

\* entry of pasteText(text): a fresh invocation record
\* The k-th call is made at time (k-1)*CallPeriod.  Clipboard restores of
\* earlier calls that are still pending keep their remaining delay and their
\* order; the records of finished processes and of past clipboard accesses
\* are dropped (dialogs counts the dialogs of the current call).
\* earlierResolved records whether every earlier call resolved.
BeginCall(S, cid, text) ==
  LET c == [NoCall EXCEPT !.id = cid, !.status = "running", !.text = text,
                          !.quietStart = Quiet(S),
                          !.earlierResolved =
                             \/ S.call.status = "none"
                             \/ S.call.earlierResolved /\ S.call.status = "resolved"]
      t0 == (cid - 1) * CallPeriod
      rank(tm) == Cardinality({o \in S.timers : o.at < tm.at \/ (o.at = tm.at /\ o.id <= tm.id)})
  IN [S EXCEPT !.call = c, !.procs = <<>>, !.clipLog = <<>>, !.now = t0, !.dialogs = 0,
               !.tseq = Cardinality(S.timers),
               !.timers = {[tm EXCEPT !.id = rank(tm), !.at = tm.at - S.now + t0,
                                      !.setAt = tm.setAt - S.now + t0, !.proc = 0,
                                      !.call = 0, !.role = "earlier"]
                             : tm \in S.timers}]

\* only clipboard restores of earlier calls are still pending
OnlyRestoresPending(S) ==
  /\ \A tm \in S.timers : tm.kind = "restore"
  /\ \A p \in 1..Len(S.procs) : Inert(S, p)

\* Callers do not overlap invocations: a call is made when the previous one
\* has settled and none of its paste tools can act any more.  Restores of
\* the previous call may still be pending, those of older calls have fired.
CanCall ==
  /\ call.status # "running"
  /\ ncalls < MaxCalls
  /\ OnlyRestoresPending(Cur)
  /\ \A tm \in timers : tm.call = call.id

\* `now < this.accessibilityCache.expiresAt && this.accessibilityCache.value !== null`
\* (AxCacheHitLate is the faulty variant that still hits at t = expiresAt)
AxCacheHitLate(cache, t) == t <= cache.expiresAt /\ cache.value # "null"
AxCacheHit(cache, t) == t < cache.expiresAt /\ cache.value # "null"

\* pasteText on macOS, up to the first suspension
PasteTextDarwin(text, readOk, writeOk) ==
  /\ platform = "darwin"
  /\ CanCall
  /\ LET cid == ncalls + 1
         S1 == SnapshotAndWrite(BeginCall(Cur, cid, text), text, readOk, writeOk)
         cached == AxCacheHit(accessibilityCache, S1.now)
         S2 == IF S1.call.status = "rejected" THEN S1
               ELSE IF cached
               THEN DarwinAfterPermission([S1 EXCEPT !.call.stage = "permission"], cid,
                                          accessibilityCache.value = "true")
               ELSE SpawnProbe([S1 EXCEPT !.call.stage = "permission"], cid)
     IN Apply(S2)
  /\ ncalls' = ncalls + 1
  /\ UNCHANGED <<envVars, commandAvailabilityCache, nircmdChecked, nircmdPath, ticks,
                 envChanges, lastCall, lastProbe>>
  /\ lastTools' = NoLastTools
  /\ UNCHANGED <<lastClip, lastAx, settings, shellVars>>

\* pasteText on Windows, up to the first suspension
PasteTextWin32(text, readOk, writeOk) ==
  /\ platform = "win32"
  /\ CanCall
  /\ LET cid == ncalls + 1
         S1 == SnapshotAndWrite(BeginCall(Cur, cid, text), text, readOk, writeOk)
         np == getNircmdPath(platform, nircmdChecked, nircmdPath, nircmdOnDisk)
     IN IF S1.call.status = "rejected"
        THEN Apply(S1) /\ UNCHANGED <<nircmdChecked, nircmdPath>>
        ELSE /\ Apply(pasteWindows(S1, cid, S1.call.originalClipboard, np.path))
             /\ nircmdChecked' = np.checked
             /\ nircmdPath' = np.path
  /\ ncalls' = ncalls + 1
  /\ UNCHANGED <<envVars, commandAvailabilityCache, ticks, envChanges, lastCall,
                 lastProbe>>
  /\ lastTools' = NoLastTools
  /\ UNCHANGED <<lastClip, lastAx, settings, shellVars>>

\* pasteText on Linux, up to the first suspension (or to the final throw when
\* there is nothing to attempt)
PasteTextLinux(text, readOk, writeOk, focus) ==
  /\ platform = "linux"
  /\ CanCall
  /\ LET cid == ncalls + 1
         S1 == SnapshotAndWrite(BeginCall(Cur, cid, text), text, readOk, writeOk)
         lp == LinuxPlan(env, commandAvailabilityCache, S1.now, installed, focus)
     IN IF S1.call.status = "rejected"
        THEN Apply(S1) /\ UNCHANGED <<commandAvailabilityCache, lastProbe>>
        ELSE /\ Apply(LinuxLoop([S1 EXCEPT !.call.plan = PlanOf(lp)], 1))
             /\ commandAvailabilityCache' = lp.cache
             /\ lastProbe' = NoteProbes(lastProbe, lp.probedNow, lp.cache, S1.now)
  /\ ncalls' = ncalls + 1
  /\ UNCHANGED <<envVars, nircmdChecked, nircmdPath, ticks, envChanges, lastCall>>
  /\ lastTools' = NoLastTools
  /\ UNCHANGED <<lastClip, lastAx, settings, shellVars>>

\* ------------------------------------------------------------------------
\* Event-loop steps
\* ------------------------------------------------------------------------
\* the timer the event loop runs next: earliest deadline, creation order on ties
Due(tm) ==
  /\ tm \in timers
  /\ \A o \in timers : tm.at < o.at \/ (tm.at = o.at /\ tm.id <= o.id)

Dequeue(tm) == [Cur EXCEPT !.timers = @ \ {tm}, !.now = IF tm.at > now THEN tm.at ELSE now]

engineRest == <<envVars, commandAvailabilityCache, nircmdChecked, nircmdPath, ncalls, ticks,
                envChanges, lastCall, lastProbe, lastTools, lastClip, lastAx, settings, shellVars>>

\* pre-paste delay elapsed: the paste tool is spawned
DelayFire ==
  \E tm \in timers :
    /\ Due(tm) /\ tm.kind = "delay"
    /\ Apply(OnDelay(Dequeue(tm), tm))
    /\ UNCHANGED engineRest

\* attempt timeout elapsed
TimeoutFire ==
  \E tm \in timers :
    /\ Due(tm) /\ tm.kind = "timeout"
    /\ Apply(OnTimeout(Dequeue(tm), tm.proc))
    /\ UNCHANGED engineRest

\* restore delay elapsed: the snapshot is written back
RestoreFire ==
  \E tm \in timers :
    /\ Due(tm) /\ tm.kind = "restore"
    /\ Apply(OnRestore(Dequeue(tm), tm))
    /\ UNCHANGED engineRest

Deliver(S, p, code, isError) ==
  IF ~S.procs[p].listening THEN S
  ELSE IF isError THEN OnError(S, p) ELSE OnClose(S, p, code)

\* exit codes a running process can end with
ExitCodes(pr) ==
  CASE pr.role = "probe" -> IF axGranted THEN {0} ELSE {1}
    [] pr.role = "osascript" -> IF axGranted THEN {0, 1} ELSE {1}
    [] pr.role \in {"linux", "type"} -> IF pr.cmd \in installed THEN {0, 1} ELSE {}
    [] OTHER -> {0, 1}

\* a running process exits by itself: 'close' with its exit code
ProcClose ==
  \E p \in 1..Len(procs) : \E code \in ExitCodes(procs[p]) :
    /\ procs[p].phase = "running"
    /\ Apply(Deliver([Cur EXCEPT !.procs[p].phase = "closed", !.procs[p].exitAt = now,
                                 !.procs[p].exitLog = Len(clipLog),
                                 !.procs[p].exitCode = code], p, code, FALSE))
    /\ UNCHANGED engineRest

\* The process could not be spawned: 'error'.  Node may or may not emit
\* 'close' (with a negative code) after the 'error' of a failed spawn.
ProcError ==
  \E p \in 1..Len(procs) : \E thenClose \in BOOLEAN :
    /\ procs[p].phase = "running"
    /\ procs[p].spawnedAt = now
    /\ LET S1 == Deliver([Cur EXCEPT !.procs[p].phase = "errored", !.procs[p].exitAt = now,
                               !.procs[p].exitLog = Len(clipLog)],
                         p, -2, TRUE)
       IN IF thenClose
          THEN Apply(Deliver([S1 EXCEPT !.procs[p].phase = "closed",
                                        !.procs[p].exitCode = -2], p, -2, FALSE))
          ELSE Apply([S1 EXCEPT !.procs[p].listening = FALSE])
    /\ UNCHANGED engineRest

\* a killed process is gone: 'close' with code null
ProcCloseKilled ==
  \E p \in 1..Len(procs) :
    /\ procs[p].phase = "killed"
    /\ Apply(Deliver([Cur EXCEPT !.procs[p].phase = "closed", !.procs[p].exitAt = now,
                                 !.procs[p].exitLog = Len(clipLog)],
                     p, -1, FALSE))
    /\ UNCHANGED engineRest

\* ------------------------------------------------------------------------
\* Environment steps
\* ------------------------------------------------------------------------
ExitDelay == 20
CacheSteps == {1, 29999}
ProbedTools == {"xdotool", "wtype"}

\* a paste tool that was just spawned keeps running for ExitDelay ms
Wait ==
  /\ \E p \in 1..Len(procs) :
       procs[p].phase = "running" /\ procs[p].role \in PasteRoles /\ procs[p].spawnedAt = now
  /\ \A tm \in timers : now + ExitDelay <= tm.at
  /\ now' = now + ExitDelay
  /\ UNCHANGED <<envVars, commandAvailabilityCache, accessibilityCache, nircmdChecked,
                 nircmdPath, clipboard, timers, tseq, procs, call, ncalls, ticks, envChanges,
                 clipLog, dialogs, lastCall, lastProbe, lastTools, lastClip, lastAx, settings, shellVars>>

\* time passes, never beyond the next timer deadline
Advance(d) ==
  /\ ticks < MaxTicks
  /\ \A tm \in timers : now + d <= tm.at
  /\ now' = now + d
  /\ ticks' = ticks + 1
  /\ UNCHANGED <<envVars, commandAvailabilityCache, accessibilityCache, nircmdChecked,
                 nircmdPath, clipboard, timers, tseq, procs, call, ncalls, envChanges,
                 clipLog, dialogs, lastCall, lastProbe, lastTools, lastClip, lastAx, settings, shellVars>>

\* the environment changes, and the diagnostic query is made, between calls
BetweenCalls == call.status # "running" /\ OnlyRestoresPending(Cur)

envRest == <<platform, env, commandAvailabilityCache, accessibilityCache, nircmdChecked,
             nircmdPath, clipboard, now, timers, tseq, procs, call, ncalls, ticks, clipLog,
             dialogs, lastCall, lastProbe, lastTools, lastClip, lastAx, settings, shellVars>>

\* a tool is installed or removed
ToolChange ==
  /\ platform = "linux" /\ envChanges < MaxEnvChanges /\ BetweenCalls
  /\ \E c \in ProbedTools :
       installed' = IF c \in installed THEN installed \ {c} ELSE installed \cup {c}
  /\ envChanges' = envChanges + 1
  /\ UNCHANGED <<envRest, nircmdOnDisk, axGranted>>

\* the user grants or revokes the accessibility permission
PermissionChange ==
  /\ platform = "darwin" /\ envChanges < MaxEnvChanges /\ BetweenCalls
  /\ axGranted' = ~axGranted
  /\ envChanges' = envChanges + 1
  /\ UNCHANGED <<envRest, installed, nircmdOnDisk>>

\* ------------------------------------------------------------------------
\* Diagnostic and cache entry points
\* ------------------------------------------------------------------------
\* a direct commandExists(cmd) call
CallCommandExists(cmd, throws) ==
  /\ platform = "linux"
  /\ LET r == commandExists(commandAvailabilityCache, cmd, now, installed, throws) IN
     /\ commandAvailabilityCache' = r.cache
     /\ lastCall' = [cmd |-> cmd, at |-> now, result |-> r.exists, probed |-> r.probed,
                     prevProbeAt |-> lastProbe[cmd].at, prevExists |-> lastProbe[cmd].exists,
                     othersKept |-> \A o \in Tools \ {cmd} :
                                      r.cache[o] = commandAvailabilityCache[o],
                     probeFailed |-> r.probed /\ (throws \/ cmd \notin installed)]
     /\ lastProbe' = NoteProbes(lastProbe, IF r.probed THEN {cmd} ELSE {}, r.cache, now)
  /\ UNCHANGED <<envVars, accessibilityCache, nircmdChecked, nircmdPath, clipboard, now,
                 timers, tseq, procs, call, ncalls, ticks, envChanges, clipLog, dialogs,
                 lastTools, lastClip, lastAx, settings, shellVars>>

\* a checkPasteTools() call
CallCheckPasteTools ==
  /\ BetweenCalls
  /\ \E throws \in BOOLEAN :
     LET r == checkPasteTools(platform, env, commandAvailabilityCache, now, installed, throws) IN
     /\ commandAvailabilityCache' = r.cache
     /\ lastProbe' = NoteProbes(lastProbe, r.probedNow, r.cache, now)
     /\ lastTools' = [asked |-> TRUE, tools |-> r.tools, available |-> r.available,
                      method |-> r.method, recommendedInstall |-> r.recommendedInstall,
                      isGnome |-> SessionInfoTable[env].isGnome]
  /\ UNCHANGED <<envVars, accessibilityCache, nircmdChecked, nircmdPath, clipboard, now,
                 timers, tseq, procs, call, ncalls, ticks, envChanges, clipLog, dialogs,
                 lastCall, lastClip, lastAx, settings, shellVars>>

\* a direct checkAccessibilityPermissions() call, up to its return or to the
\* spawn of the probe (the promise then settles when the probe ends)
CallCheckAccessibilityPermissions ==
  /\ LET seen == [at |-> now, prevValue |-> accessibilityCache.value,
                  prevExpiresAt |-> accessibilityCache.expiresAt]
     IN IF platform # "darwin"
        THEN /\ lastAx' = seen @@ [spawned |-> FALSE, returned |-> "true"]
             /\ UNCHANGED procs
        ELSE IF AxCacheHit(accessibilityCache, now)
        THEN /\ lastAx' = seen @@ [spawned |-> FALSE, returned |-> accessibilityCache.value]
             /\ UNCHANGED procs
        ELSE /\ Len(procs) < MaxCalls
             /\ lastAx' = seen @@ [spawned |-> TRUE, returned |-> "pending"]
             /\ procs' = SpawnProbe(Cur, 0).procs
  /\ UNCHANGED <<envVars, commandAvailabilityCache, accessibilityCache, nircmdChecked,
                 nircmdPath, clipboard, now, timers, tseq, call, ncalls, ticks, envChanges,
                 clipLog, dialogs, lastCall, lastProbe, lastTools, lastClip, settings, shellVars>>

\* ------------------------------------------------------------------------
\* Permission dialog and openSystemSettings
\* ------------------------------------------------------------------------
\* the three `settingsCommands`, then the two fallbacks of the else branch
settingsCommands ==
  << MkTool("open", <<"x-apple.systempreferences:com.apple.preference.security?Privacy_Accessibility">>),
     MkTool("open", <<"-b", "com.apple.systempreferences">>),
     MkTool("open", <<"/System/Library/PreferencePanes/Security.prefPane">>) >>
settingsFallbacks ==
  << MkTool("open", <<"-a", "System Preferences">>),
     MkTool("open", <<"-a", "System Settings">>) >>

\* spawn of target form number form; launched keeps for each process how many
\* launches had been made when it ended (endLen)
LaunchForm(st, form) ==
  [st EXCEPT !.launched = Append(@, [form |-> form, phase |-> "running", exitCode |-> -1,
                                     endLen |-> -1,
                                     tool |-> (settingsCommands \o settingsFallbacks)[form]])]

\* tryNextCommand()
tryNextCommand(st) ==
  IF st.commandIndex < Len(settingsCommands)
  THEN LaunchForm(st, st.commandIndex + 1)
  ELSE LaunchForm(st, Len(settingsCommands) + 1)

\* openSystemSettings()
openSystemSettings(st) == tryNextCommand([st EXCEPT !.commandIndex = 0])

\* the 'error' handler of launched process q
OnSettingsError(st, q) ==
  LET form == st.launched[q].form IN
  IF form <= Len(settingsCommands)
  THEN tryNextCommand([st EXCEPT !.commandIndex = @ + 1])
  ELSE IF form = Len(settingsCommands) + 1
  THEN LaunchForm(st, Len(settingsCommands) + 2)
  ELSE st

\* the 'close' handler of launched process q (the fallbacks have none)
OnSettingsClose(st, q, settingsCode) ==
  IF st.launched[q].form <= Len(settingsCommands) /\ settingsCode # 0
  THEN tryNextCommand([st EXCEPT !.commandIndex = @ + 1])
  ELSE st

settingsRest == <<envVars, commandAvailabilityCache, accessibilityCache, nircmdChecked,
                  nircmdPath, clipboard, now, timers, tseq, procs, call, ncalls, ticks,
                  envChanges, clipLog, dialogs, lastCall, lastProbe, lastTools, lastClip,
                  lastAx, shellVars>>

\* the permission dialog is answered: code 0 is "Open System Settings".  The
\* user answers the first dialog; later ones stay open.
DialogClose ==
  /\ platform = "darwin" /\ dialogs > 0 /\ settings.dialog = "unanswered"
  /\ \E dialogCode \in {0, 1} :
       settings' = IF dialogCode = 0
                   THEN openSystemSettings([settings EXCEPT !.dialog = "accepted"])
                   ELSE [settings EXCEPT !.dialog = "cancelled"]
  /\ UNCHANGED settingsRest

\* the permission dialog could not be shown
DialogError ==
  /\ platform = "darwin" /\ dialogs > 0 /\ settings.dialog = "unanswered"
  /\ settings' = [settings EXCEPT !.dialog = "failed"]
  /\ UNCHANGED settingsRest

\* a launched `open` process exits
SettingsProcClose ==
  /\ \E q \in 1..Len(settings.launched) : \E code \in {0, 1} :
       /\ settings.launched[q].phase = "running"
       /\ settings' = OnSettingsClose([settings EXCEPT !.launched[q].phase = "closed",
                                                       !.launched[q].exitCode = code,
                                                       !.launched[q].endLen = Len(settings.launched)],
                                      q, code)
  /\ UNCHANGED settingsRest

\* a launched `open` process could not be spawned: 'error', after which Node
\* may or may not emit 'close' with a negative code
SettingsProcError ==
  /\ Cardinality({q \in 1..Len(settings.launched) : settings.launched[q].exitCode = -2})
       < MaxSpawnFailures
  /\ \E q \in 1..Len(settings.launched) : \E thenClose \in BOOLEAN :
       /\ settings.launched[q].phase = "running"
       /\ LET st1 == OnSettingsError([settings EXCEPT !.launched[q].phase = "errored",
                                                      !.launched[q].exitCode = -2,
                                                      !.launched[q].endLen = Len(settings.launched)],
                                     q)
          IN settings' = IF thenClose
                         THEN OnSettingsClose([st1 EXCEPT !.launched[q].phase = "closed"], q, -2)
                         ELSE st1
  /\ UNCHANGED settingsRest

\* readClipboard(): ok says that clipboard.readText() did not throw
\* (readClipboardSwallowed is the faulty variant that returns an empty text
\* when the read fails)
readClipboardSwallowed(clip, ok) == [threw |-> FALSE, value |-> IF ok THEN clip ELSE ""]
readClipboard(clip, ok) ==
  IF ok THEN [threw |-> FALSE, value |-> clip] ELSE [threw |-> TRUE, value |-> ""]

\* writeClipboard(text): ok says that clipboard.writeText(text) did not throw
writeClipboard(clip, text, ok) ==
  IF ok THEN [threw |-> FALSE, success |-> TRUE, clipboard |-> text]
  ELSE [threw |-> TRUE, success |-> FALSE, clipboard |-> clip]

\* the accessors are exercised once the pasteText calls of the run are over
\* and nothing is pending
AfterCalls == ncalls = MaxCalls /\ BetweenCalls /\ timers = {} /\ ticks < MaxTicks

clipRest == <<envVars, commandAvailabilityCache, accessibilityCache, nircmdChecked,
              nircmdPath, now, timers, tseq, procs, call, ncalls, envChanges, clipLog,
              dialogs, lastCall, lastProbe, lastTools, lastAx, settings, shellVars>>

\* a readClipboard() call
CallReadClipboard ==
  /\ AfterCalls
  /\ \E ok \in BOOLEAN :
       LET r == readClipboard(clipboard, ok) IN
       lastClip' = [op |-> "read", failed |-> ~ok, threw |-> r.threw, value |-> r.value,
                    text |-> "", was |-> clipboard]
  /\ ticks' = ticks + 1
  /\ UNCHANGED <<clipRest, clipboard>>

\* a writeClipboard(text) call
CallWriteClipboard ==
  /\ AfterCalls
  /\ \E ok \in BOOLEAN : \E text \in ClipTexts :
       LET r == writeClipboard(clipboard, text, ok) IN
       /\ clipboard' = r.clipboard
       /\ lastClip' = [op |-> "write", failed |-> ~ok, threw |-> r.threw,
                       value |-> IF r.success THEN "success" ELSE "", text |-> text,
                       was |-> clipboard]
  /\ ticks' = ticks + 1
  /\ UNCHANGED clipRest

\* ------------------------------------------------------------------------
\* Entry points and events of the application shell
\* ------------------------------------------------------------------------
managerVars == <<envVars, commandAvailabilityCache, accessibilityCache, nircmdChecked,
                 nircmdPath, clipboard, now, timers, tseq, procs, call, ncalls, ticks,
                 envChanges, clipLog, dialogs, lastCall, lastProbe, lastTools, lastClip,
                 lastAx, settings>>

\* the values handed to setupShortcuts and updateHotkey
HotkeyArgs == {"F8", "F10", GLOBE}

\* a HotkeyManager method returns: its effects and what the observer keeps
Returned(H, op, arg, direct) ==
  /\ hotkeyManager' = H.m
  /\ host' = H.e
  /\ lastHotkeyOp' = [op |-> op, arg |-> arg, success |-> H.success, threw |-> H.threw,
                      tried |-> H.tried,
                      viaGnome |-> hotkeyManager.useGnome /\ hotkeyManager.gnomeManager,
                      registeredBefore |-> host.registered,
                      currentBefore |-> hotkeyManager.currentHotkey,
                      sentBefore |-> Len(host.sent),
                      storageBefore |-> host.storage,
                      n |-> IF direct THEN lastHotkeyOp.n + 1 ELSE lastHotkeyOp.n]
  /\ UNCHANGED <<managerVars, toggle, devServer>>

\* WindowManager.initializeHotkey() at application start
CallInitializeHotkey ==
  /\ ~hotkeyManager.isInitialized
  /\ \E dbusOk \in BOOLEAN :
       Returned(initializeHotkey(Running(hotkeyManager, host), platform, dbusOk),
                "initializeHotkey", "", FALSE)

\* the setTimeout of initializeHotkey fires: registerGnomeHotkey on the GNOME
\* path, loadSavedHotkeyOrDefault otherwise
RegistrationTimerFire ==
  /\ host.timer # "none"
  /\ \E readOk \in BOOLEAN : \E gnomeOk \in BOOLEAN : \E readAgainOk \in BOOLEAN :
     \E jsOk \in BOOLEAN :
       LET H0 == Running(hotkeyManager, [host EXCEPT !.timer = "none"])
       IN IF host.timer = "gnome"
          THEN Returned(registerGnomeHotkey(H0, platform, readOk, gnomeOk, readAgainOk, jsOk),
                        "registerGnomeHotkey", "", FALSE)
          ELSE /\ gnomeOk /\ readAgainOk
               /\ Returned(loadSavedHotkeyOrDefault(H0, platform, readOk, jsOk),
                           "loadSavedHotkeyOrDefault", "", FALSE)

\* a direct setupShortcuts(hotkey, callback) call
CallSetupShortcuts ==
  /\ hotkeyManager.isInitialized /\ lastHotkeyOp.n < MaxHotkeyOps
  /\ \E hotkey \in HotkeyArgs :
       Returned(setupShortcuts(Running(hotkeyManager, host), hotkey, platform),
                "setupShortcuts", hotkey, TRUE)

\* updateHotkey(hotkey, callback), asked by the settings panel
CallUpdateHotkey ==
  /\ hotkeyManager.isInitialized /\ lastHotkeyOp.n < MaxHotkeyOps
  /\ \E hotkey \in HotkeyArgs : \E gnomeOk \in BOOLEAN : \E cfgOk \in BOOLEAN :
     \E jsOk \in BOOLEAN :
       Returned(updateHotkey(Running(hotkeyManager, host), hotkey, platform, gnomeOk,
                             cfgOk, jsOk),
                "updateHotkey", hotkey, TRUE)

\* the main window is destroyed
DestroyWindow ==
  /\ hotkeyManager.mainWindow /\ ~host.windowDestroyed
  /\ host' = [host EXCEPT !.windowDestroyed = TRUE]
  /\ UNCHANGED <<managerVars, hotkeyManager, lastHotkeyOp, toggle, devServer>>

\* the application quits and is started again: a new HotkeyManager and a new
\* window; the config file and the renderer storage persist
Restart ==
  /\ hotkeyManager.isInitialized /\ host.restarts < MaxRestarts
  /\ hotkeyManager' = NewHotkeyManager
  /\ host' = [host EXCEPT !.registered = {}, !.gnomeBinding = "", !.timer = "none",
                          !.windowDestroyed = FALSE, !.sent = <<>>, !.restarts = @ + 1]
  /\ lastHotkeyOp' = [NoHotkeyOp EXCEPT !.n = lastHotkeyOp.n]
  /\ UNCHANGED <<managerVars, toggle, devServer>>

\* the registered hotkey is pressed: the callback runs up to its first
\* suspension or its end
HotkeyPressed ==
  /\ toggle.count < MaxPresses
  /\ toggle' = hotkeyCallback(toggle, platform, hotkeyManager.isListeningMode)
  /\ UNCHANGED <<managerVars, hotkeyManager, host, lastHotkeyOp, devServer>>

\* getActivationMode() resolves for one suspended invocation
ActivationModeResolved ==
  /\ \E inv \in toggle.pending : \E mode \in {"push", "tap"} :
       toggle' = afterActivationMode(toggle, inv, mode, hotkeyManager.isListeningMode)
  /\ UNCHANGED <<managerVars, hotkeyManager, host, lastHotkeyOp, devServer>>

\* setHotkeyListeningMode(enabled)
SetHotkeyListeningMode ==
  /\ \E enabled \in BOOLEAN :
       /\ enabled # hotkeyManager.isListeningMode
       /\ hotkeyManager' = [hotkeyManager EXCEPT !.isListeningMode = enabled]
  /\ UNCHANGED <<managerVars, host, lastHotkeyOp, toggle, devServer>>

\* time passes between two events of the hotkey callback
ClockSteps == {50, 100}

ClockStep ==
  /\ toggle.steps < MaxSteps
  /\ \E d \in ClockSteps : toggle' = [toggle EXCEPT !.now = @ + d, !.steps = @ + 1]
  /\ UNCHANGED <<managerVars, hotkeyManager, host, lastHotkeyOp, devServer>>

\* the status codes a probe is answered with
StatusCodes == {199, 200, 399, 400, 500}

devRest == <<managerVars, hotkeyManager, host, lastHotkeyOp, toggle>>

\* waitForDevServer(url, maxAttempts, delay), up to its first suspension
CallWaitForDevServer ==
  /\ devServer.phase = "idle"
  /\ \E n \in 0..MaxAttempts : \E urlValid \in BOOLEAN :
       devServer' = loopHead([NoDevServer EXCEPT !.maxAttempts = n, !.urlValid = urlValid])
  /\ UNCHANGED devRest

\* the response callback of http.get
ProbeResponse ==
  /\ devServer.phase = "probing"
  /\ \E statusCode \in StatusCodes :
       devServer' = probeResolved(devServer, "response", statusCode, statusOk(statusCode))
  /\ UNCHANGED devRest

\* req.on("error")
ProbeError ==
  /\ devServer.phase = "probing"
  /\ devServer' = probeResolved(devServer, "error", 0, FALSE)
  /\ UNCHANGED devRest

\* req.on("timeout"): no answer within 2000 ms
ProbeTimeout ==
  /\ devServer.phase = "probing"
  /\ devServer' = probeResolved(devServer, "timeout", 0, FALSE)
  /\ UNCHANGED devRest

\* the delay at the end of the loop body has elapsed: i++ and the loop head
DelayElapsed ==
  /\ devServer.phase = "sleeping"
  /\ devServer' = loopHead([devServer EXCEPT !.i = @ + 1])
  /\ UNCHANGED devRest


\* ------------------------------------------------------------------------
\* Specifications
\* ------------------------------------------------------------------------
PasteText ==
  \E readOk \in BOOLEAN : \E writeOk \in BOOLEAN :
    \/ PasteTextDarwin(TextOf(ncalls + 1), readOk, writeOk)
    \/ PasteTextWin32(TextOf(ncalls + 1), readOk, writeOk)
    \/ \E focus \in FocusSamples : PasteTextLinux(TextOf(ncalls + 1), readOk, writeOk, focus)

Next ==
  \/ PasteText
  \/ DelayFire
  \/ TimeoutFire
  \/ RestoreFire
  \/ ProcClose
  \/ ProcError
  \/ ProcCloseKilled
  \/ Wait
  \/ PermissionChange
  \/ CallCheckPasteTools

Spec == Init /\ [][Next]_vars

\* Timers always fire, a killed process always closes, and the accessibility
\* probe (a query that does not wait for anything) always exits.  A paste
\* tool, by contrast, may run forever.
ProbeExit ==
  \E p \in 1..Len(procs) : \E code \in ExitCodes(procs[p]) :
    /\ procs[p].phase = "running" /\ procs[p].role = "probe"
    /\ Apply(Deliver([Cur EXCEPT !.procs[p].phase = "closed", !.procs[p].exitAt = now,
                                 !.procs[p].exitLog = Len(clipLog),
                                 !.procs[p].exitCode = code], p, code, FALSE))
    /\ UNCHANGED engineRest

LiveSpec ==
  /\ Init /\ [][Next]_vars
  /\ WF_vars(DelayFire) /\ WF_vars(TimeoutFire) /\ WF_vars(RestoreFire)
  /\ WF_vars(ProcCloseKilled) /\ WF_vars(ProbeExit)

\* The capability cache on its own: commandExists is called for the tools of
\* ProbedTools at arbitrary instants while these tools come and go.
CacheInit ==
  /\ Init /\ platform = "linux"
  /\ env = MkEnv(sX11, sUnset, sSet, sKDE, sUnset, sPlasma)

CacheNext ==
  \/ \E cmd \in ProbedTools : \E throws \in BOOLEAN : CallCommandExists(cmd, throws)
  \/ \E d \in CacheSteps : Advance(d)
  \/ ToolChange

CacheSpec == CacheInit /\ [][CacheNext]_vars

\* The accessibility check on its own: checkAccessibilityPermissions is called
\* at arbitrary instants while the permission is granted and revoked; on
\* Linux one session stands for all.
AxInit ==
  /\ Init
  /\ platform = "linux" =>
       /\ env = MkEnv(sX11, sUnset, sSet, sKDE, sUnset, sPlasma)
       /\ installed = {"xdotool", "kdotool"}

AxNext ==
  \/ CallCheckAccessibilityPermissions
  \/ ProbeExit
  \/ ProcError
  \/ \E d \in CacheSteps : Advance(d)
  \/ PermissionChange

AxSpec == AxInit /\ [][AxNext]_vars

\* The permission dialog on macOS: the check is called, the probe is denied,
\* the dialog is answered and openSystemSettings runs.
SettingsInit == Init /\ platform = "darwin"

SettingsNext ==
  \/ CallCheckAccessibilityPermissions
  \/ ProbeExit
  \/ ProcError
  \/ PermissionChange
  \/ DialogClose
  \/ DialogError
  \/ SettingsProcClose
  \/ SettingsProcError

SettingsSpec == SettingsInit /\ [][SettingsNext]_vars

\* The whole manager, clipboard accessors included, in one Linux session (a
\* KDE X11 desktop with xdotool and kdotool) and on macOS and Windows.
ClipInit ==
  /\ Init
  /\ platform = "linux" =>
       /\ env = MkEnv(sX11, sUnset, sSet, sKDE, sUnset, sPlasma)
       /\ installed = {"xdotool", "kdotool"}

ClipNext ==
  \/ Next
  \/ CallReadClipboard
  \/ CallWriteClipboard

ClipSpec == ClipInit /\ [][ClipNext]_vars


\* The engine at rest while the application shell runs: one Linux session
\* stands for all.
EngineAtRest ==
  /\ ManagerInit
  /\ ~nircmdOnDisk /\ ~axGranted
  /\ platform = "linux" =>
       /\ env = MkEnv(sX11, sUnset, sSet, sKDE, sUnset, sPlasma)
       /\ installed = {}

\* the accelerators other applications hold, and the saved hotkeys
TakenSets == {{}, {"F10"}, {BACKTICK, "F8"}, {BACKTICK, "F8", "F9", "CommandOrControl+Shift+Space"}}
SavedValues == {"", " ", "F10"}

\* The hotkey manager: initialization, its timer, hotkey updates and restarts.
HotkeyInit ==
  /\ EngineAtRest
  /\ hotkeyManager = NewHotkeyManager
  /\ \E taken \in TakenSets : \E config \in SavedValues : \E storage \in SavedValues :
     \E gnomeWayland \in BOOLEAN :
       /\ gnomeWayland => platform = "linux"
       /\ host = MkHost(taken, config, storage, gnomeWayland)
  /\ lastHotkeyOp = NoHotkeyOp
  /\ toggle = NewToggle(FALSE)
  /\ devServer = NoDevServer

HotkeyNext ==
  \/ CallInitializeHotkey
  \/ RegistrationTimerFire
  \/ CallSetupShortcuts
  \/ CallUpdateHotkey
  \/ DestroyWindow
  \/ Restart

HotkeySpec == HotkeyInit /\ [][HotkeyNext]_vars

\* The hotkey callback: presses, the activation-mode lookup, listening mode
\* and the clock.
CallbackInit ==
  /\ EngineAtRest
  /\ hotkeyManager = NewHotkeyManager
  /\ host = MkHost({}, "", "", FALSE)
  /\ lastHotkeyOp = NoHotkeyOp
  /\ \E pushAvailable \in BOOLEAN :
       /\ pushAvailable => platform = "win32"
       /\ toggle = NewToggle(pushAvailable)
  /\ devServer = NoDevServer

CallbackNext ==
  \/ HotkeyPressed
  \/ ActivationModeResolved
  \/ SetHotkeyListeningMode
  \/ ClockStep

CallbackSpec == CallbackInit /\ [][CallbackNext]_vars

\* The dev server wait: every probe ends (at the latest by its timeout) and
\* every delay elapses.
DevInit == EngineAtRest /\ ShellAtRest

DevNext ==
  \/ CallWaitForDevServer
  \/ ProbeResponse
  \/ ProbeError
  \/ ProbeTimeout
  \/ DelayElapsed

DevSpec ==
  /\ DevInit /\ [][DevNext]_vars
  /\ WF_vars(ProbeTimeout) /\ WF_vars(DelayElapsed)

\* ------------------------------------------------------------------------
\* Properties
\* ------------------------------------------------------------------------
SessionInfo == SessionInfoTable[env]

ProcIds == 1..Len(procs)

LogIds == 1..Len(clipLog)

\* the latest call got as far as putting its text on the clipboard
Copied == call.status # "none" /\ call.wrote

\* C10: on Linux, when the desktop is identified as GNOME, wtype is neither
\* among the candidates pasteLinux builds and attempts nor in the tools list
\* of checkPasteTools, whether or not wtype is installed.
C10_NoWtypeOnGnome ==
  (platform = "linux" /\ isGnomeDesktop(SessionInfo.desktopEnv)) =>
    /\ \A i \in 1..Len(call.plan.candidates) : call.plan.candidates[i].cmd # "wtype"
    /\ \A i \in 1..Len(call.plan.available) : call.plan.available[i].cmd # "wtype"
    /\ \A p \in ProcIds : procs[p].cmd # "wtype"
    /\ \A tm \in timers : tm.tool.cmd # "wtype"
    /\ \A i \in 1..Len(lastTools.tools) : lastTools.tools[i] # "wtype"

\* a GNOME Wayland session with wtype installed, after a pasteText call that
\* had a candidate and a checkPasteTools call that listed a tool
C10_Witness ==
  /\ platform = "linux" /\ SessionInfo.isGnome /\ "wtype" \in installed
  /\ Copied /\ Len(call.plan.candidates) > 0
  /\ lastTools.asked /\ Len(lastTools.tools) > 0

\* C9: a commandExists call made less than 30000 ms after the latest probe of
\* the same tool returns that probe's result and spawns no probe; a call with
\* no earlier probe, or made 30000 ms or more after it, spawns a probe; the
\* entries of the other tools are left as they were.
C9_CacheTtl ==
  lastCall.cmd # "none" =>
    /\ (lastCall.prevProbeAt >= 0 /\ lastCall.at < lastCall.prevProbeAt + 30000)
         => (~lastCall.probed /\ lastCall.result = lastCall.prevExists)
    /\ (lastCall.prevProbeAt < 0 \/ lastCall.at >= lastCall.prevProbeAt + 30000)
         => lastCall.probed
    /\ lastCall.othersKept

\* a call answered from the cache, later than the probe, although the tool
\* set has changed since
C9_Witness ==
  /\ lastCall.cmd # "none" /\ ~lastCall.probed
  /\ lastCall.at > lastCall.prevProbeAt
  /\ lastCall.result # (lastCall.cmd \in installed)

\* C2: within a pasteText call the clipboard write of the text comes strictly
\* after the read that captures the snapshot; a call whose snapshot read
\* fails never writes the clipboard and schedules nothing.
C2_WriteAfterSnapshot ==
  /\ \A i \in LogIds :
       clipLog[i].op = "write" =>
         \E j \in 1..(i - 1) :
           /\ clipLog[j].op = "read" /\ clipLog[j].call = clipLog[i].call
           /\ clipLog[j].val = call.originalClipboard
  /\ \A i \in LogIds :
       clipLog[i].op = "readfail" =>
         /\ \A j \in LogIds :
              clipLog[j].call = clipLog[i].call => clipLog[j].op \notin {"write", "restore"}
         /\ \A tm \in timers : tm.call # clipLog[i].call
         /\ call.status = "rejected"

\* a resolved call whose write was logged after its snapshot read
C2_Witness ==
  /\ call.status = "resolved"
  /\ \E i \in LogIds : \E j \in LogIds :
       /\ i < j /\ clipLog[i].op = "read" /\ clipLog[j].op = "write"
       /\ clipLog[i].call = call.id /\ clipLog[j].call = call.id

\* C4: on macOS, when the permission check reports the accessibility
\* permission absent (freshly probed or cached), the call rejects with the
\* permission message, no keystroke process is spawned, no timer (hence no
\* clipboard restore) is scheduled, and the clipboard holds the text.
C4_PermissionDenied ==
  (platform = "darwin" /\ call.hasPermissions = "no") =>
    /\ call.status = "rejected"
    /\ call.err.msg = MSG_MAC_PERMISSION
    /\ \A p \in ProcIds : procs[p].role \notin PasteRoles
    /\ \A tm \in timers : tm.call # call.id
    /\ \A i \in LogIds : clipLog[i].op = "restore" => clipLog[i].call # call.id
    /\ clipboard = call.text

\* a second call denied from the cached answer, without any process
C4_Witness ==
  /\ platform = "darwin" /\ call.id = 2 /\ call.hasPermissions = "no"
  /\ call.status = "rejected" /\ procs = <<>> /\ clipboard = TextOf(2)

\* C5: on Windows without nircmd, once powershell.exe has exited with code 0
\* the call is resolved, powershell.exe is the only process the call has
\* spawned, and the call's clipboard restore writes the pre-call content
\* exactly 80 ms after the exit: not before, and it has happened once that
\* instant is past and the timer has fired.
C5_PowerShellOnly ==
  (platform = "win32" /\ Copied /\ nircmdPath = "") =>
    \A p \in ProcIds :
      (procs[p].role = "powershell" /\ procs[p].phase = "closed" /\ procs[p].exitCode = 0) =>
        /\ call.status = "resolved"
        /\ Len(procs) = 1
        /\ \A i \in LogIds :
             (clipLog[i].op = "restore" /\ clipLog[i].call = call.id) =>
               /\ clipLog[i].at = procs[p].exitAt + 80
               /\ clipLog[i].val = call.originalClipboard
        /\ \A tm \in timers :
             (tm.kind = "restore" /\ tm.call = call.id) =>
               (tm.at = procs[p].exitAt + 80 /\ tm.value = call.originalClipboard)
        /\ \/ \E tm \in timers : tm.kind = "restore" /\ tm.call = call.id
           \/ \E i \in LogIds :
                /\ clipLog[i].op = "restore" /\ clipLog[i].call = call.id
                /\ clipboard = call.originalClipboard

\* the restore has been written, some time after the tool was spawned
C5_Witness ==
  /\ platform = "win32" /\ nircmdPath = "" /\ call.status = "resolved"
  /\ \E p \in ProcIds :
       /\ procs[p].role = "powershell" /\ procs[p].exitCode = 0
       /\ procs[p].exitAt > procs[p].spawnedAt
       /\ now = procs[p].exitAt + 80
  /\ \E i \in LogIds : clipLog[i].op = "restore" /\ clipLog[i].call = call.id
  /\ clipboard = ORIGINAL

C7_GnomeWaylandMessage ==
  (/\ platform = "linux" /\ SessionInfo.isWayland /\ SessionInfo.isGnome
   /\ ~SessionInfo.xwaylandAvailable /\ Copied /\ call.status = "rejected") =>
    /\ call.err.code = "PASTE_SIMULATION_FAILED"
    /\ call.err.msg = MSG_GNOME_BLOCKS

\* such a rejection after an installed tool was attempted and failed
C7_Witness ==
  /\ platform = "linux" /\ SessionInfo.isGnome /\ ~SessionInfo.xwaylandAvailable
  /\ call.status = "rejected" /\ Len(call.err.failedAttempts) > 0
  /\ "ydotool" \in installed /\ "wtype" \in installed

\* the kind of failure behind a rejection, and the code the error object
\* is expected to carry for it
FailureKind ==
  IF ~call.wrote THEN "clipboard"
  ELSE IF platform = "darwin" /\ call.hasPermissions = "no" THEN "permission"
  ELSE "paste"

ExpectedCode ==
  CASE FailureKind = "clipboard" -> "CLIPBOARD_ACCESS_ERROR"
    [] FailureKind = "permission" -> "PERMISSION_REQUIRED"
    [] OTHER -> "PASTE_SIMULATION_FAILED"

\* C8: every rejection of pasteText carries the one error code, among
\* paste-simulation-failed, clipboard-access-error and permission-required,
\* that identifies the kind of failure that occurred.
C8_ErrorCodes ==
  call.status = "rejected" => call.err.code = ExpectedCode

\* the calls C1 speaks about: the clipboard was read and written without
\* error, no callback of an earlier call was pending when the call started,
\* the call has settled and no timer is pending any more
SettledAndDrained ==
  /\ Copied /\ call.quietStart
  /\ call.status \in {"resolved", "rejected"}
  /\ timers = {}
  /\ \A p \in ProcIds : procs[p].phase \notin {"running", "killed"}

\* C1: once a call has settled and every timer it scheduled has fired, the
\* clipboard holds the content it held immediately before the call if the
\* call resolved, and the text if the call rejected.
C1_FinalClipboard ==
  SettledAndDrained =>
    /\ call.status = "resolved" => clipboard = call.originalClipboard
    /\ call.status = "rejected" => clipboard = call.text

CapturedClass ==
  IF call.plan.xdotoolWindowClass # <<>> THEN call.plan.xdotoolWindowClass
  ELSE call.plan.kdotoolWindowClass

MatchesTerminal(className) ==
  \E i \in 1..Len(terminalClasses) : Includes(className, terminalClasses[i])

\* the key combination a paste command line asks for
KeysOf(cmd, args) ==
  LET has(x) == \E i \in 1..Len(args) : args[i] = x IN
  CASE cmd = "wtype" -> IF has("shift") THEN "ctrl+shift+v" ELSE "ctrl+v"
    [] cmd = "ydotool" -> IF has("42:1") THEN "ctrl+shift+v" ELSE "ctrl+v"
    [] OTHER -> IF has("ctrl+shift+v") THEN "ctrl+shift+v"
                ELSE IF has("ctrl+v") THEN "ctrl+v" ELSE "none"

\* C11: on Linux, when the captured class name of the foreground window
\* contains a known terminal identifier, every candidate that is listed,
\* scheduled or spawned asks for Ctrl+Shift+V, none for Ctrl+V.
C11_TerminalKeys ==
  (platform = "linux" /\ Copied /\ MatchesTerminal(CapturedClass)) =>
    /\ \A i \in 1..Len(call.plan.available) :
         KeysOf(call.plan.available[i].cmd, call.plan.available[i].args) = "ctrl+shift+v"
    /\ \A p \in ProcIds :
         procs[p].role = "linux" => KeysOf(procs[p].cmd, procs[p].args) = "ctrl+shift+v"
    /\ \A tm \in timers :
         (tm.kind = "delay" /\ tm.role = "linux") =>
           KeysOf(tm.tool.cmd, tm.tool.args) = "ctrl+shift+v"

\* a terminal in front, and two different tools already spawned
C11_Witness ==
  /\ platform = "linux" /\ MatchesTerminal(CapturedClass)
  /\ \E p \in ProcIds : \E q \in ProcIds :
       /\ procs[p].role = "linux" /\ procs[q].role = "linux" /\ procs[p].cmd # procs[q].cmd

\* C12: a call that succeeds returns a result that names the tool that
\* pasted and lists, in order, the attempts that failed before it; a call
\* that fails has the list of failed attempts attached to its error.
C12_PasteResult ==
  /\ call.status = "resolved" =>
       /\ call.value.defined /\ call.value.succeeded
       /\ call.value.toolUsed = call.toolUsed
       /\ call.value.failedAttempts = call.failedAttempts
  /\ (call.status = "rejected" /\ Copied) =>
       call.err.failedAttempts = call.failedAttempts

\* the strategies the latest call has attempted (spawned), in order
RECURSIVE AttemptsFrom(_)
AttemptsFrom(p) ==
  IF p > Len(procs) THEN <<>>
  ELSE IF procs[p].role \in PasteRoles
       THEN <<IF procs[p].role = "type" THEN "xdotool type" ELSE procs[p].cmd>>
            \o AttemptsFrom(p + 1)
       ELSE AttemptsFrom(p + 1)

Attempted == AttemptsFrom(1)

\* C13: when a call rejects after attempting n strategies, the failedAttempts
\* list on its error has exactly n entries, naming the strategies in the
\* order they were attempted.
C13_AllFailuresRecorded ==
  (call.status = "rejected" /\ Copied) =>
    /\ Len(call.err.failedAttempts) = Len(Attempted)
    /\ \A i \in 1..Len(Attempted) : call.err.failedAttempts[i].tool = Attempted[i]

\* C14: checkPasteTools returns a result for every session environment and
\* every probe outcome; on Linux available is true exactly when tools is
\* non-empty, method is the first entry of tools (null when there is none)
\* and recommendedInstall is set only when available is false; on macOS and
\* Windows available is true.
C14_CheckPasteTools ==
  lastTools.asked =>
    IF platform = "linux"
    THEN /\ lastTools.available <=> Len(lastTools.tools) > 0
         /\ lastTools.method =
              (IF Len(lastTools.tools) > 0 THEN lastTools.tools[1] ELSE "null")
         /\ lastTools.recommendedInstall # "undefined" => ~lastTools.available
    ELSE /\ lastTools.available
         /\ lastTools.tools = <<>>
         /\ lastTools.recommendedInstall = "undefined"

\* a Linux answer listing more than one tool
C14_Witness ==
  /\ platform = "linux" /\ lastTools.asked
  /\ Len(lastTools.tools) > 1 /\ lastTools.method = lastTools.tools[1]

\* the timing table: pre-paste delay, restore delay and attempt timeout (ms)
Timing(role, isWayland) ==
  CASE role = "osascript" -> [pre |-> 50, restore |-> 100, timeout |-> 3000]
    [] role = "nircmd" -> [pre |-> 30, restore |-> 80, timeout |-> 2000]
    [] role = "powershell" -> [pre |-> 40, restore |-> 80, timeout |-> 5000]
    [] OTHER -> [pre |-> IF isWayland THEN 0 ELSE 50, restore |-> 200, timeout |-> 2000]

\* C15: every path keeps to the timing table: the tool is spawned exactly
\* the pre-paste delay after the attempt was started, its timeout is due (and
\* the kill happens) exactly the timeout after the spawn, no tool runs
\* beyond it, and the restore is due (and written) exactly the restore delay
\* after an exit with code 0.
C15_TimingTable ==
  Copied =>
    /\ \A tm \in timers :
         (tm.kind = "delay" /\ tm.call = call.id) =>
           tm.at = tm.setAt + Timing(tm.role, call.plan.isWayland).pre
    /\ \A p \in ProcIds :
         procs[p].role \in PasteRoles =>
           LET T == Timing(procs[p].role, call.plan.isWayland) IN
           /\ procs[p].spawnedAt = procs[p].armedAt + T.pre
           /\ procs[p].phase = "running" => now <= procs[p].spawnedAt + T.timeout
           /\ procs[p].timedOut <=> procs[p].killedAt >= 0
           /\ procs[p].killedAt >= 0 => procs[p].killedAt = procs[p].spawnedAt + T.timeout
           /\ \A tm \in timers :
                (tm.kind = "timeout" /\ tm.proc = p) =>
                  tm.at = procs[p].spawnedAt + T.timeout
           /\ \A tm \in timers :
                (tm.kind = "restore" /\ tm.call = call.id /\ tm.proc = p) =>
                  /\ procs[p].exitCode = 0
                  /\ tm.at = procs[p].exitAt + T.restore
    /\ \A i \in LogIds :
         (clipLog[i].op = "restore" /\ clipLog[i].call = call.id) =>
           \E p \in ProcIds :
             /\ procs[p].role \in PasteRoles /\ procs[p].exitCode = 0
             /\ clipLog[i].at =
                  procs[p].exitAt + Timing(procs[p].role, call.plan.isWayland).restore

\* a Wayland call in which one tool was killed at its timeout and a later
\* one succeeded some time after its spawn, the restore being written
C15_Witness ==
  /\ platform = "linux" /\ call.plan.isWayland /\ call.status = "resolved"
  /\ \E p \in ProcIds : procs[p].killedAt >= 0
  /\ \E p \in ProcIds : procs[p].exitCode = 0 /\ procs[p].exitAt > procs[p].spawnedAt
  /\ \E i \in LogIds : clipLog[i].op = "restore" /\ clipLog[i].call = call.id

\* the paste-tool processes of the latest call that are alive
Alive == {p \in ProcIds : procs[p].role \in PasteRoles /\ procs[p].phase = "running"}

\* C16: within one call at most one paste-tool process is alive at any time.
C16_OneAtATime == Cardinality(Alive) <= 1

\* the strategy a process belongs to
StrategyOf(p) == <<procs[p].role, procs[p].cmd>>

\* C17: within one call each strategy's process is spawned at most once.
C17_SpawnedOnce ==
  \A p \in ProcIds : \A q \in ProcIds :
    (procs[p].role \in PasteRoles /\ StrategyOf(p) = StrategyOf(q)) => p = q

\* the paste-tool processes of the latest call that exited with code 0
Succeeded == {p \in ProcIds : procs[p].role \in PasteRoles /\ procs[p].exitCode = 0}

\* C18: the call writes the clipboard once before any tool runs (the text);
\* every later write of the call is a restore that comes no earlier than the
\* exit with code 0 of a tool of the call, and no write of the call falls
\* between the write of the text and such an exit; a restore is scheduled
\* only in the handler of such an exit.
C18_NoWriteBeforeSuccess ==
  Copied =>
    /\ \A i \in LogIds :
         (clipLog[i].call = call.id /\ clipLog[i].op = "write") =>
           /\ clipLog[i].val = call.text
           /\ \A j \in 1..(i - 1) : clipLog[j].call = call.id => clipLog[j].op = "read"
    /\ \A i \in LogIds :
         (clipLog[i].call = call.id /\ clipLog[i].op = "restore") =>
           /\ Succeeded # {}
           /\ \A p \in Succeeded : procs[p].exitLog < i
    /\ \A tm \in timers :
         (tm.kind = "restore" /\ tm.call = call.id) =>
           /\ tm.proc \in Succeeded
           /\ tm.setAt = procs[tm.proc].exitAt

\* the processes of a Windows strategy started for the latest call, and the
\* pre-paste delays of that strategy that are still pending
ProcsOf(role) == {p \in ProcIds : procs[p].role = role /\ procs[p].call = call.id}
ArmedFor(role) == {tm \in timers : tm.kind = "delay" /\ tm.role = role /\ tm.call = call.id}
WasAttempted(role) == ProcsOf(role) # {} \/ ArmedFor(role) # {}

\* the nircmd process n ended in one of the three ways that lead to the fallback
NircmdFailedAt(n) ==
  \/ procs[n].phase = "errored"
  \/ procs[n].phase = "closed" /\ procs[n].exitCode # 0
  \/ procs[n].timedOut /\ procs[n].killedAt = procs[n].spawnedAt + NIRCMD_TIMEOUT_MS

\* the instant at which nircmd process n failed
NircmdFailTime(n) == IF procs[n].timedOut THEN procs[n].killedAt ELSE procs[n].exitAt

\* C19: on Windows nircmd is attempted first whenever it is present; PowerShell
\* is attempted if and only if nircmd is absent, exited with a non-zero code,
\* raised a spawn error or was killed at its 2000 ms timeout; after nircmd
\* exited with code 0 PowerShell is never spawned.
C19_WindowsOrder ==
  (platform = "win32" /\ call.status # "none" /\ call.stage = "paste") =>
    /\ nircmdOnDisk => WasAttempted("nircmd")
    /\ ~nircmdOnDisk => ~WasAttempted("nircmd")
    /\ WasAttempted("powershell") <=>
         (~nircmdOnDisk \/ \E n \in ProcsOf("nircmd") : NircmdFailedAt(n))
    /\ nircmdOnDisk =>
         /\ \A p \in ProcsOf("powershell") :
              \E n \in ProcsOf("nircmd") :
                n < p /\ NircmdFailedAt(n) /\ NircmdFailTime(n) <= procs[p].armedAt
         /\ \A tm \in ArmedFor("powershell") :
              \E n \in ProcsOf("nircmd") :
                NircmdFailedAt(n) /\ NircmdFailTime(n) <= tm.setAt
    /\ (\E n \in ProcsOf("nircmd") : procs[n].exitCode = 0) =>
         /\ ~WasAttempted("powershell")
         /\ call.toolUsed = "nircmd"

\* nircmd was present, timed out after 2000 ms and was killed, and the
\* PowerShell fallback then pasted
C19_Witness ==
  /\ platform = "win32" /\ nircmdOnDisk
  /\ \E n \in ProcsOf("nircmd") : procs[n].timedOut
  /\ \E p \in ProcsOf("powershell") : procs[p].exitCode = 0
  /\ call.status = "resolved"

\* the commands the call has to try, in order: wtype, xdotool, ydotool, each
\* only if the session recorded at the start of the call admits it and the
\* command was found
ExpectedOrder ==
  LET pl == call.plan IN
  (IF pl.isWayland /\ ~pl.isGnome /\ pl.wtypeExists THEN <<"wtype">> ELSE <<>>)
  \o (IF (~pl.isWayland \/ pl.xwaylandAvailable) /\ pl.xdotoolExists
      THEN <<"xdotool">> ELSE <<>>)
  \o (IF pl.isWayland /\ pl.ydotoolExists THEN <<"ydotool">> ELSE <<>>)

\* the candidate processes of the latest call, and the position of one of
\* them in spawn order
Candidates == ProcsOf("linux")
Rank(p) == Cardinality({q \in Candidates : q <= p})

\* candidate process p failed or timed out
CandidateFailed(p) ==
  \/ procs[p].phase = "errored"
  \/ procs[p].phase = "closed" /\ procs[p].exitCode # 0
  \/ procs[p].timedOut

\* the instant at which candidate process p failed or timed out
CandidateFailTime(p) == IF procs[p].timedOut THEN procs[p].killedAt ELSE procs[p].exitAt

\* C20: on Linux the candidates are attempted in the order wtype, xdotool,
\* ydotool, restricted to those that are session-compatible and present; the
\* first one that exits with code 0 ends the call successfully and no later
\* candidate is spawned; a candidate is advanced past only after it failed or
\* timed out.
C20_LinuxOrder ==
  (platform = "linux" /\ call.status # "none") =>
    /\ Cardinality(Candidates) <= Len(ExpectedOrder)
    /\ \A p \in Candidates : procs[p].cmd = ExpectedOrder[Rank(p)]
    /\ \A tm \in ArmedFor("linux") :
         /\ Cardinality(Candidates) < Len(ExpectedOrder)
         /\ tm.tool.cmd = ExpectedOrder[Cardinality(Candidates) + 1]
         /\ \A p \in Candidates : CandidateFailed(p) /\ CandidateFailTime(p) <= tm.setAt
    /\ \A p \in Candidates : \A q \in Candidates :
         p < q => CandidateFailed(p) /\ CandidateFailTime(p) <= procs[q].armedAt
    /\ \A p \in Candidates :
         procs[p].exitCode = 0 =>
           /\ \A q \in Candidates : q <= p
           /\ ArmedFor("linux") = {} /\ WasAttempted("type") = FALSE
           /\ call.status = "resolved" /\ call.toolUsed = procs[p].cmd
    /\ (call.status = "running" /\ call.stage = "candidates") =>
         \/ ArmedFor("linux") # {}
         \/ \E p \in Candidates : procs[p].phase \in {"running", "killed"}

\* wtype and xdotool were both usable, wtype failed, and xdotool then exited
\* with code 0 and ended the call
C20_Witness ==
  /\ platform = "linux" /\ call.status = "resolved"
  /\ Len(ExpectedOrder) >= 2 /\ ExpectedOrder[1] = "wtype"
  /\ \E p \in Candidates : \E q \in Candidates :
       /\ p < q /\ procs[p].cmd = "wtype" /\ CandidateFailed(p)
       /\ procs[q].cmd = "xdotool" /\ procs[q].exitCode = 0

\* the commands of the `candidates` array of the latest call
CandidateCmds == {call.plan.candidates[i].cmd : i \in 1..Len(call.plan.candidates)}

\* what commandExists answered for cmd in the latest call
ReportedPresent(cmd) ==
  CASE cmd = "xdotool" -> call.plan.xdotoolExists
    [] cmd = "wtype" -> call.plan.wtypeExists
    [] cmd = "ydotool" -> call.plan.ydotoolExists
    [] OTHER -> FALSE

\* C21: on Linux xdotool is a paste candidate only in a native X11 session or
\* in a Wayland session with XWayland available, ydotool only in a Wayland
\* session, and every candidate that is spawned was reported present by the
\* capability cache in that call.
C21_CandidateCompatibility ==
  (platform = "linux" /\ call.status # "none") =>
    /\ "xdotool" \in CandidateCmds =>
         (~SessionInfo.isWayland \/ (SessionInfo.isWayland /\ env.DISPLAY # <<>>))
    /\ "ydotool" \in CandidateCmds => SessionInfo.isWayland
    /\ \A p \in Candidates :
         /\ procs[p].cmd \in CandidateCmds
         /\ ReportedPresent(procs[p].cmd)
         /\ commandAvailabilityCache[procs[p].cmd].present
         /\ commandAvailabilityCache[procs[p].cmd].exists

\* a Wayland session with XWayland in which xdotool and ydotool were both
\* spawned
C21_Witness ==
  /\ platform = "linux" /\ SessionInfo.isWayland /\ env.DISPLAY # <<>>
  /\ \E p \in Candidates : procs[p].cmd = "xdotool"
  /\ \E p \in Candidates : procs[p].cmd = "ydotool"

\* the messages pasteLinux can throw
LinuxMessages ==
  {MSG_GNOME_BLOCKS, MSG_GNOME_NEEDS_XDOTOOL, MSG_GNOME_NOT_XWAYLAND,
   MSG_GNOME_XWAYLAND_FAILED, MSG_WAYLAND_NEEDS_TOOL, MSG_WAYLAND_NEEDS_TOOL_XW,
   MSG_WAYLAND_FAILED, MSG_WAYLAND_FAILED_NOTE, MSG_X11}

\* C22: when the ordered strategy list of the session is empty, pasteText goes
\* directly to the all-failed rejection: no paste-tool process and no typing
\* process is spawned, failedAttempts is empty, and the clipboard holds the
\* target text.
C22_EmptyList ==
  (platform = "linux" /\ Copied /\ ExpectedOrder = <<>>) =>
    /\ call.plan.available = <<>>
    /\ call.status = "rejected"
    /\ call.err.code = "PASTE_SIMULATION_FAILED"
    /\ call.err.msg \in LinuxMessages
    /\ call.err.failedAttempts = <<>> /\ call.failedAttempts = <<>>
    /\ ~WasAttempted("linux") /\ ~WasAttempted("type")
    /\ \A p \in ProcIds : procs[p].call # call.id
    /\ \A tm \in timers : tm.call # call.id
    /\ clipboard = call.text
    /\ \A i \in LogIds : clipLog[i].call = call.id => clipLog[i].op \in {"read", "write"}

\* a terminal is focused in an X11 session where xdotool is not found: the
\* list is empty and the call is rejected at once
C22_Witness ==
  /\ platform = "linux" /\ Copied /\ ExpectedOrder = <<>>
  /\ ~call.plan.isWayland /\ call.plan.inTerminal
  /\ call.status = "rejected" /\ clipboard = call.text

\* candidate process p failed and the attempt loop has taken note of it
CandidateDone(p) == procs[p].settled /\ CandidateFailed(p)

\* every candidate of the list was tried and failed
AllCandidatesFailed ==
  /\ Cardinality(Candidates) = Len(ExpectedOrder)
  /\ \A p \in Candidates : CandidateDone(p)

\* the guard of the type fallback
TypeGuard == call.plan.inTerminal /\ call.plan.xdotoolExists /\ ~call.plan.isWayland

\* the text an `xdotool type` command line types
TypedText(args) == args[Len(args)]

\* the original clipboard is written back, or about to be
RestoreUnderWay ==
  \/ \E tm \in timers :
       tm.kind = "restore" /\ tm.call = call.id /\ tm.value = call.originalClipboard
  \/ \E i \in LogIds :
       /\ clipLog[i].call = call.id /\ clipLog[i].op = "restore"
       /\ clipLog[i].val = call.originalClipboard

\* C23: on Linux the `xdotool type` fallback is attempted if and only if every
\* candidate failed, the target is a terminal, xdotool exists and the session
\* is not Wayland; it is attempted at most once and only after all candidates;
\* it types the target text of the current call; its success resolves the call
\* with the snapshot restored, and its failure is appended to failedAttempts.
C23_TypeFallback ==
  (platform = "linux" /\ Copied) =>
    /\ WasAttempted("type") <=> (AllCandidatesFailed /\ TypeGuard)
    /\ Cardinality(ProcsOf("type")) + Cardinality(ArmedFor("type")) <= 1
    /\ \A t \in ProcsOf("type") :
         /\ \A p \in Candidates : p < t /\ CandidateFailTime(p) <= procs[t].armedAt
         /\ procs[t].cmd = "xdotool"
         /\ TypedText(procs[t].args) = call.text
         /\ procs[t].exitCode = 0 =>
              /\ call.status = "resolved" /\ call.toolUsed = "xdotool type"
              /\ RestoreUnderWay
         /\ CandidateDone(t) =>
              /\ call.status = "rejected"
              /\ call.failedAttempts # <<>>
              /\ call.failedAttempts[Len(call.failedAttempts)].tool = "xdotool type"
              /\ call.err.failedAttempts = call.failedAttempts
    /\ \A tm \in ArmedFor("type") : TypedText(tm.tool.args) = call.text

\* the only candidate failed in front of a terminal on X11, and the type
\* fallback then exited with code 0
C23_Witness ==
  /\ platform = "linux" /\ Copied /\ TypeGuard
  /\ Candidates # {} /\ AllCandidatesFailed
  /\ \E t \in ProcsOf("type") : procs[t].exitCode = 0
  /\ call.status = "resolved"

\* the step is the start of a pasteText call whose clipboard read or write failed
FailedStart == call'.id # call.id /\ ~call'.wrote

\* C24: if the clipboard read or write at the start of pasteText fails, the
\* call rejects with that clipboard error immediately: no permission probe, no
\* tool-existence probe and no paste-tool process is started and no fallback
\* is attempted; readClipboard and writeClipboard likewise propagate the
\* failure instead of returning a value.
C24_ClipboardFailure ==
  [][/\ FailedStart =>
          /\ call'.status = "rejected"
          /\ call'.err.msg = MSG_CLIPBOARD
          /\ call'.stage = NoCall.stage /\ call'.plan = NoPlan
          /\ procs' = <<>>
          /\ \A tm \in timers' : tm.kind = "restore" /\ tm.call # call'.id
          /\ commandAvailabilityCache' = commandAvailabilityCache
          /\ lastProbe' = lastProbe
          /\ accessibilityCache' = accessibilityCache
          /\ dialogs' = 0
          /\ nircmdChecked' = nircmdChecked
     /\ (call.status # "none" /\ ~call.wrote /\ call'.id = call.id) =>
          /\ call' = call /\ procs' = <<>>
          /\ \A tm \in timers' : tm \in timers
     /\ lastClip' # lastClip =>
          /\ lastClip'.threw <=> lastClip'.failed
          /\ lastClip'.failed => lastClip'.value = "" /\ clipboard' = clipboard
          /\ (~lastClip'.failed /\ lastClip'.op = "read") =>
               lastClip'.value = clipboard /\ clipboard' = clipboard
          /\ (~lastClip'.failed /\ lastClip'.op = "write") =>
               lastClip'.value = "success" /\ clipboard' = lastClip'.text
    ]_vars

\* a pasteText call was rejected because the clipboard write failed, and a
\* later readClipboard call threw
C24_Witness ==
  /\ call.status = "rejected" /\ call.readOk /\ ~call.wrote /\ procs = <<>>
  /\ lastClip.op = "read" /\ lastClip.failed /\ lastClip.threw

\* the loop went on after the failure of candidate p, at the instant the
\* failure was delivered: the next candidate of the list was armed, or, after
\* the last one, the type fallback was armed or the call was rejected
AdvancedPast(p) ==
  LET k == Rank(p) IN
  IF k < Len(ExpectedOrder)
  THEN \/ \E q \in Candidates :
            /\ Rank(q) = k + 1 /\ procs[q].cmd = ExpectedOrder[k + 1]
            /\ procs[q].armedAt = procs[p].exitAt
       \/ \E tm \in ArmedFor("linux") :
            tm.tool.cmd = ExpectedOrder[k + 1] /\ tm.setAt = procs[p].exitAt
  ELSE IF TypeGuard THEN WasAttempted("type") ELSE call.status = "rejected"

\* C25: a candidate killed at its timeout is recorded in failedAttempts with a
\* reason that differs from every reason recorded for a non-zero exit or a
\* spawn error, and the loop advances to the next candidate in the same way
\* in both cases.
C25_TimeoutReason ==
  (platform = "linux" /\ Copied) =>
    \A p \in Candidates :
      CandidateDone(p) =>
        /\ Rank(p) <= Len(call.failedAttempts)
        /\ call.failedAttempts[Rank(p)].tool = procs[p].cmd
        /\ call.failedAttempts[Rank(p)].args = procs[p].args
        /\ procs[p].timedOut =>
             /\ call.failedAttempts[Rank(p)].error = "timed out"
             /\ procs[p].killedAt = procs[p].spawnedAt + LINUX_TIMEOUT_MS
        /\ ~procs[p].timedOut =>
             call.failedAttempts[Rank(p)].error \in {"exited with code", "spawn error"}
        /\ \A q \in Candidates :
             (CandidateDone(q) /\ (procs[p].timedOut # procs[q].timedOut)) =>
               call.failedAttempts[Rank(p)].error # call.failedAttempts[Rank(q)].error
        /\ AdvancedPast(p)

\* the first candidate was killed at its timeout and the second exited with a
\* non-zero code: both are recorded and the loop went past both
C25_Witness ==
  /\ platform = "linux" /\ Copied
  /\ \E p \in Candidates : \E q \in Candidates :
       /\ p < q /\ CandidateDone(p) /\ CandidateDone(q)
       /\ procs[p].timedOut /\ ~procs[q].timedOut /\ procs[q].exitCode > 0
       /\ call.failedAttempts[Rank(p)].error = "timed out"

\* the messages of the rejections in which no tool could be attempted: the
\* first call of a fresh manager, over the sampled sessions, installed tools
\* and focused windows, when its list of available candidates is empty
NothingAttemptedMessages ==
  {linuxErrorMsg(LinuxPlan(e, [c \in Tools |-> NoEntry], 0, inst, focus)) :
     <<e, inst, focus>> \in
       {x \in LinuxEnvs \X InstalledSets \X FocusSamples :
          LinuxPlan(x[1], [c \in Tools |-> NoEntry], 0, x[2], x[3]).available = <<>>}}

\* the latest call was rejected after at least one installed, compatible tool
\* was attempted and failed
RejectedAfterAttempt ==
  /\ platform = "linux" /\ Copied /\ call.status = "rejected"
  /\ call.err.failedAttempts # <<>>

\* C26: the failure reasons map to messages of their own: a rejection after a
\* compatible installed tool was attempted and failed never carries the base
\* message of a rejection in which no tool could be attempted (a compatible
\* tool is not installed, or the session supports no tool).
C26_DistinctMessages ==
  RejectedAfterAttempt => call.err.msg \notin NothingAttemptedMessages

\* xdotool cannot be asked about windows in the session of the latest call
XdotoolUnusable ==
  ~call.plan.xdotoolExists \/ (SessionInfo.isWayland /\ env.DISPLAY = <<>>)

\* no introspection tool gave an answer in the latest call
NoIntrospection ==
  /\ call.plan.targetWindowId = ""
  /\ call.plan.xdotoolWindowClass = <<>>
  /\ call.plan.kdotoolWindowClass = <<>>

\* every xdotool key command line of the latest call, built, armed or spawned
XdotoolKeyArgs ==
  {call.plan.candidates[i].args :
     i \in {j \in 1..Len(call.plan.candidates) : call.plan.candidates[j].cmd = "xdotool"}}
  \cup {procs[p].args : p \in {q \in Candidates : procs[q].cmd = "xdotool"}}
  \cup {tm.tool.args : tm \in {t \in ArmedFor("linux") : t.tool.cmd = "xdotool"}}

\* C27: on Linux, when no window-introspection tool is usable, pasteLinux does
\* not fail for that reason: no window ID is captured, the xdotool key
\* arguments carry no window retarget and the plain ctrl+v combination is
\* used; when a window ID was captured, the xdotool candidate is retargeted at
\* exactly that window.
C27_NoIntrospection ==
  (platform = "linux" /\ Copied) =>
    /\ XdotoolUnusable =>
         call.plan.targetWindowId = "" /\ call.plan.xdotoolWindowClass = <<>>
    /\ "kdotool" \notin installed => call.plan.kdotoolWindowClass = <<>>
    /\ NoIntrospection =>
         /\ ~call.plan.inTerminal
         /\ \A a \in XdotoolKeyArgs : a = <<"key", "ctrl+v">>
         /\ \A i \in 1..Len(call.plan.candidates) :
              KeysOf(call.plan.candidates[i].cmd, call.plan.candidates[i].args) = "ctrl+v"
         /\ call.status = "rejected" => (ExpectedOrder = <<>> \/ call.failedAttempts # <<>>)
         /\ ExpectedOrder # <<>> => WasAttempted("linux")
    /\ call.plan.targetWindowId # "" =>
         /\ call.plan.targetWindowId \in {f.xwin : f \in FocusSamples}
         /\ XdotoolKeyArgs # {}
         /\ \A a \in XdotoolKeyArgs :
              /\ Len(a) = 5
              /\ SubSeq(a, 1, 4) = <<"windowactivate", "--sync", call.plan.targetWindowId, "key">>

\* xdotool is installed but reports no active window and kdotool gives no
\* class: xdotool is run with the plain key arguments and pastes
C27_Witness ==
  /\ platform = "linux" /\ Copied /\ NoIntrospection
  /\ \E p \in Candidates :
       procs[p].cmd = "xdotool" /\ procs[p].args = <<"key", "ctrl+v">> /\ procs[p].exitCode = 0
  /\ call.status = "resolved"

\* C28: commandExists always returns a boolean and caches negative outcomes
\* like positive ones: after a probe that exits non-zero or throws, the entry
\* is stored as not available with a fresh 30000 ms expiry, and calls within
\* that window return false without spawning another probe.
C28_NegativeCached ==
  lastCall.cmd # "none" =>
    LET entry == commandAvailabilityCache[lastCall.cmd] IN
    /\ lastCall.result \in BOOLEAN
    /\ lastCall.probed =>
         /\ entry.present /\ entry.exists = lastCall.result
         /\ entry.expiresAt = lastCall.at + 30000
         /\ lastCall.probeFailed <=> ~lastCall.result
    /\ (lastCall.prevProbeAt >= 0 /\ ~lastCall.prevExists
          /\ lastCall.at < lastCall.prevProbeAt + 30000) =>
         /\ ~lastCall.probed /\ lastCall.result = FALSE
         /\ entry.present /\ ~entry.exists
         /\ entry.expiresAt = lastCall.prevProbeAt + 30000

\* a call answered false from the cache, later than the failed probe, although
\* the tool has been installed since
C28_Witness ==
  /\ lastCall.cmd \in installed /\ ~lastCall.probed /\ lastCall.result = FALSE
  /\ lastCall.prevProbeAt >= 0 /\ lastCall.at > lastCall.prevProbeAt

\* the accessibility probes that have ended
ProbesDone ==
  {p \in ProcIds : procs[p].role = "probe" /\ procs[p].phase \in {"closed", "errored"}}

\* C29: on macOS, after a probe completed (granted, denied or spawn error),
\* every checkAccessibilityPermissions call that starts within 30000 ms
\* returns the cached boolean without spawning a probe, and a call after
\* expiry probes again; on other platforms the check returns true without
\* ever spawning a process.
C29_AccessibilityTtl ==
  /\ platform # "darwin" =>
       /\ procs = <<>> /\ accessibilityCache.value = "null"
       /\ lastAx.at >= 0 => (~lastAx.spawned /\ lastAx.returned = "true")
  /\ platform = "darwin" =>
       /\ accessibilityCache.value # "null" =>
            \E p \in ProbesDone :
              /\ accessibilityCache.expiresAt = procs[p].exitAt + 30000
              /\ accessibilityCache.value = "true" <=> procs[p].exitCode = 0
       /\ ProbesDone # {} => accessibilityCache.value \in {"true", "false"}
       /\ lastAx.at >= 0 =>
            /\ (lastAx.prevValue # "null" /\ lastAx.at < lastAx.prevExpiresAt) =>
                 (~lastAx.spawned /\ lastAx.returned = lastAx.prevValue)
            /\ (lastAx.prevValue = "null" \/ lastAx.at >= lastAx.prevExpiresAt) =>
                 lastAx.spawned

\* a call 29999 ms after a denied probe is answered false from the cache
\* although the permission has been granted since
C29_Witness ==
  /\ platform = "darwin" /\ axGranted
  /\ lastAx.at >= 0 /\ ~lastAx.spawned /\ lastAx.returned = "false"
  /\ lastAx.at = lastAx.prevExpiresAt - 1

\* the launched processes of target form k, and those that failed
Launched == 1..Len(settings.launched)
FormProcs(k) == {q \in Launched : settings.launched[q].form = k}
FormFailed(q) ==
  \/ settings.launched[q].phase = "errored"
  \/ settings.launched[q].phase = "closed" /\ settings.launched[q].exitCode # 0

\* C30: after the permission dialog was accepted, the target forms are tried
\* strictly in sequence: form k+1 is launched only after form k failed, each
\* form is launched at most once and none is skipped, no later form is
\* launched once a form exited with code 0, and the number of launches is
\* bounded.
C30_SettingsSequence ==
  /\ settings.dialog # "accepted" => settings.launched = <<>>
  /\ \A q \in Launched :
       LET k == settings.launched[q].form IN
       /\ Cardinality(FormProcs(k)) = 1
       /\ k = q
       /\ k > 1 =>
            \E p \in FormProcs(k - 1) : FormFailed(p) /\ settings.launched[p].endLen < q
       /\ settings.launched[q].exitCode = 0 =>
            Len(settings.launched) = settings.launched[q].endLen
  /\ Len(settings.launched) <= Len(settingsCommands) + Len(settingsFallbacks)
\* C31: callers never overlap pasteText invocations; whenever a paste-tool
\* process is spawned, the clipboard holds the text passed to the call that
\* spawned it.
C31_ClipboardAtSpawn ==
  \A p \in ProcIds :
    (procs[p].role \in PasteRoles /\ procs[p].call = call.id) =>
      procs[p].clipAtSpawn = call.text

\* every call made so far resolved, every restore timer has fired and no
\* paste tool can act any more
AllSucceededAndDrained ==
  /\ Copied /\ call.status = "resolved" /\ call.earlierResolved
  /\ timers = {}
  /\ \A p \in ProcIds : procs[p].phase \notin {"running", "killed"}

\* C32: after a sequence of non-overlapping pasteText calls that all
\* succeeded, once every scheduled restore timer has fired the clipboard holds
\* the content it had before the first call, whatever the delay between
\* consecutive calls.
C32_RestoredAfterSequence ==
  AllSucceededAndDrained => clipboard = ORIGINAL
\* the commands of a list of tools, in order
CmdsOf(tools) == [i \in 1..Len(tools) |-> tools[i].cmd]

\* the list pasteLinux would attempt, asked at this instant with the cache c
WouldAttempt(c, focus) == CmdsOf(LinuxPlan(env, c, now, installed, focus).available)

\* C33: on Linux, for the same session environment and the same
\* tool-presence results, the tools list returned by checkPasteTools equals,
\* in content and order, the list of candidates pasteLinux would attempt
\* (whatever window is focused); checkPasteTools reports available false
\* exactly when pasteLinux would attempt no tool.  The two are compared from
\* the same cache at the same instant, and pasteLinux also right after
\* checkPasteTools, when it is answered from the entries checkPasteTools
\* stored (those of a throwing spawnSync included).
C33_ToolsMatchCandidates ==
  platform = "linux" =>
    \A focus \in FocusSamples :
      /\ LET r == checkPasteTools(platform, env, commandAvailabilityCache, now, installed, FALSE)
         IN /\ r.tools = WouldAttempt(commandAvailabilityCache, focus)
            /\ r.available <=> WouldAttempt(commandAvailabilityCache, focus) # <<>>
      /\ \A throws \in BOOLEAN :
           LET r == checkPasteTools(platform, env, commandAvailabilityCache, now, installed, throws)
           IN /\ r.tools = WouldAttempt(r.cache, focus)
              /\ r.available <=> WouldAttempt(r.cache, focus) # <<>>

\* checkPasteTools listed two tools and a paste call built the same list of
\* candidates in front of a terminal
C33_Witness ==
  /\ platform = "linux" /\ lastTools.asked /\ Copied
  /\ Len(lastTools.tools) > 1 /\ lastTools.available
  /\ CmdsOf(call.plan.available) = lastTools.tools
  /\ call.plan.inTerminal
\* C34: a setupShortcuts(hotkey) call that returns a failure leaves the
\* registration state unchanged: the hotkey registered before the call is
\* still registered with globalShortcut, and currentHotkey still names a
\* registered hotkey.
C34_FailedSetupKeepsRegistration ==
  (lastHotkeyOp.op = "setupShortcuts" /\ ~lastHotkeyOp.success) =>
    /\ host.registered = lastHotkeyOp.registeredBefore
    /\ hotkeyManager.currentHotkey = lastHotkeyOp.currentBefore
    /\ lastHotkeyOp.currentBefore \in lastHotkeyOp.registeredBefore =>
         hotkeyManager.currentHotkey \in host.registered

\* the invocations of the hotkey callback that ran to their end, and those
\* that sent toggle-dictation
Invocations == 1..Len(toggle.log)
Senders == {k \in Invocations : toggle.log[k].sent}

\* C35: the hotkey callback never sends toggle-dictation to the main window
\* while the hotkey manager is in listening mode, for every interleaving of
\* setHotkeyListeningMode with a callback invocation, including one that is
\* suspended awaiting the activation mode on Windows.
C35_NoToggleWhileListening ==
  \A k \in Senders : ~toggle.log[k].listening

\* C36: for one callback created by createHotkeyCallback, any two
\* invocations that both send toggle-dictation are at least 150 ms apart: an
\* invocation made less than 150 ms after the last one that sent a toggle
\* sends nothing and leaves the debounce timestamp unchanged.
C36_Debounce ==
  /\ \A j \in Senders : \A k \in Senders :
       j # k =>
         \/ toggle.log[k].invokedAt - toggle.log[j].invokedAt >= DEBOUNCE_MS
         \/ toggle.log[j].invokedAt - toggle.log[k].invokedAt >= DEBOUNCE_MS
  /\ \A k \in Invocations :
       (toggle.log[k].lastBefore > 0
          /\ toggle.log[k].invokedAt - toggle.log[k].lastBefore < DEBOUNCE_MS) =>
         ~toggle.log[k].sent
  /\ \A k \in Invocations :
       ~toggle.log[k].sent =>
         (IF k < Len(toggle.log) THEN toggle.log[k + 1].lastBefore ELSE toggle.lastToggleTime)
           = toggle.log[k].lastBefore

\* the hotkeys loadSavedHotkeyOrDefault is to try, in order: the saved hotkey
\* (config file, else renderer storage) if there is one, the platform
\* default, then the fallbacks.  On macOS the default is the Globe key, which
\* is adopted without globalShortcut, so the list ends with it.
LoadOrder ==
  LET saved == IF loadHotkeyFromConfig(host) # "" THEN loadHotkeyFromConfig(host)
               ELSE lastHotkeyOp.storageBefore
  IN (IF IsBlank(saved) THEN <<>> ELSE <<saved>>)
     \o (IF platform = "darwin" THEN <<GLOBE>> ELSE <<BACKTICK>> \o fallbackHotkeys)

\* the hotkeys the latest method tried, the Globe default included
TriedHotkeys ==
  LET t == [k \in 1..Len(lastHotkeyOp.tried) |-> lastHotkeyOp.tried[k].hotkey]
  IN IF platform = "darwin" /\ hotkeyManager.currentHotkey = GLOBE
        /\ (t = <<>> \/ ~lastHotkeyOp.tried[Len(t)].ok)
     THEN Append(t, GLOBE)
     ELSE t

LastTriedOk ==
  /\ TriedHotkeys # <<>>
  /\ \/ TriedHotkeys[Len(TriedHotkeys)] = GLOBE
     \/ lastHotkeyOp.tried[Len(lastHotkeyOp.tried)].ok

\* the method got as far as the fallback hotkeys
FallbackReached ==
  platform # "darwin" /\ Len(TriedHotkeys) > Len(LoadOrder) - Len(fallbackHotkeys)

\* the messages the latest method sent to the main window
SentNow == SubSeq(host.sent, lastHotkeyOp.sentBefore + 1, Len(host.sent))

\* C37: loadSavedHotkeyOrDefault tries hotkeys in the fixed order saved hotkey
\* (config file, else renderer storage), platform default, F8, F9,
\* CommandOrControl+Shift+Space, and stops at the first that registers; when
\* a fallback registers it is persisted to the renderer and a fallback
\* notification is sent; when none registers a failure notification is sent.
C37_LoadOrder ==
  lastHotkeyOp.op = "loadSavedHotkeyOrDefault" =>
    /\ Len(TriedHotkeys) <= Len(LoadOrder)
    /\ TriedHotkeys = SubSeq(LoadOrder, 1, Len(TriedHotkeys))
    /\ \A k \in 1..Len(lastHotkeyOp.tried) :
         lastHotkeyOp.tried[k].ok => k = Len(lastHotkeyOp.tried)
    /\ ~LastTriedOk => TriedHotkeys = LoadOrder
    /\ (LastTriedOk /\ FallbackReached) =>
         /\ host.storage = TriedHotkeys[Len(TriedHotkeys)]
         /\ \E k \in 1..Len(SentNow) :
              /\ SentNow[k].channel = "hotkey-fallback-used"
              /\ SentNow[k].hotkey = TriedHotkeys[Len(TriedHotkeys)]
    /\ ~LastTriedOk =>
         /\ SentNow # <<>>
         /\ SentNow[Len(SentNow)].channel = "hotkey-registration-failed"
    /\ LastTriedOk => hotkeyManager.currentHotkey = TriedHotkeys[Len(TriedHotkeys)]
\* C38: after updateHotkey(h) returned success, the saved hotkey that the
\* next initialization restores (config file first, renderer storage second)
\* is h, whether the update went through the GNOME native path or the
\* globalShortcut path.
C38_UpdatePersists ==
  (lastHotkeyOp.op = "updateHotkey" /\ lastHotkeyOp.success) =>
    SavedHotkey(host) = lastHotkeyOp.arg
\* probe k was answered with a status in 200..399
GoodProbe(k) ==
  /\ devServer.probes[k].outcome = "response"
  /\ devServer.probes[k].status \in 200..399

\* what holds of waitForDevServer at every instant: at most maxAttempts
\* probes; no probe follows one answered with a status in 200..399; true is
\* returned right at such an answer, false after maxAttempts iterations
\* without one
DevServerSafe ==
  /\ Len(devServer.probes) <= devServer.maxAttempts
  /\ \A k \in 1..Len(devServer.probes) : GoodProbe(k) => k = Len(devServer.probes)
  /\ (devServer.phase = "returned" /\ devServer.result) =>
       Len(devServer.probes) > 0 /\ GoodProbe(Len(devServer.probes))
  /\ (devServer.probes # <<>> /\ GoodProbe(Len(devServer.probes))) =>
       devServer.phase = "returned" /\ devServer.result
  /\ (devServer.phase = "returned" /\ ~devServer.result) =>
       /\ devServer.i = devServer.maxAttempts
       /\ devServer.urlValid => Len(devServer.probes) = devServer.maxAttempts
       /\ \A k \in 1..Len(devServer.probes) :
            devServer.probes[k].outcome \in {"response", "error", "timeout"}

\* C39: waitForDevServer always terminates after at most maxAttempts probes:
\* it returns true at the first probe answered with a status in 200..399 and
\* makes no further probe, and returns false when all maxAttempts probes
\* failed, errored or timed out.
C39_WaitTerminates ==
  /\ []DevServerSafe
  /\ (devServer.phase \in {"probing", "sleeping"}) ~> (devServer.phase = "returned")

\* true was returned at the third probe, after an error and a timeout
C39_Witness ==
  /\ devServer.phase = "returned" /\ devServer.result
  /\ Len(devServer.probes) = 3 /\ devServer.maxAttempts = 3
  /\ devServer.probes[1].outcome = "error" /\ devServer.probes[2].outcome = "timeout"
  /\ devServer.probes[3].status = 399
====
